---- MODULE Spec2Model ----
(***************************************************************************)
(* The dispatch core of relay/workflow.py: the Workflow handler registry   *)
(* (type_handlers, get_handler) and one Relay session (the read loop of    *)
(* Relay._handle, the correlation table id_futures, the event matcher      *)
(* event_futures, the handler executions spawned through _wrapper), and    *)
(* the Server that binds workflows to paths, with a Relay per connection.   *)
(*                                                                         *)
(* Messages are Python dicts: functions from field names to strings.       *)
(* One asyncio event loop runs the session, so every action below is the   *)
(* code that runs between two suspension points (await) of one coroutine.  *)
(***************************************************************************)
EXTENDS Integers, Sequences, FiniteSets, TLC

VARIABLES
    type_handlers,  \* Workflow.type_handlers: key -> handler routine
    resolved,       \* what Workflow.get_handler returned for event on the registry as it stands
    event,          \* the event of that call (NoMsg once the registry has changed since)
    last_e,         \* Relay._handle: e, the message the read loop decoded last (observed in Spec)
    loop,           \* Relay._handle: "running" while the async-for reads, "closed" after it ended
    id_futures,     \* Relay.id_futures: request id -> future
    event_futures,  \* Relay.event_futures: an insertion-ordered dict, kept as the sequence of its items
    futures,        \* the asyncio futures created by the session, by index
    tasks,          \* the handler executions spawned with asyncio.create_task(self._wrapper(...))
    log,            \* the session's observable history: requests sent, responses correlated, spawns, raises
    uuids,          \* how many uuid4 values have been drawn
    now,            \* the wall clock, time.time(), in seconds
    nticks,         \* how often the clock has advanced
    nregs,          \* how many registrations have been made on the Workflow
    workflows,      \* Server.workflows: path -> workflow
    raised,         \* what the last Server.register raised (NoMsg: it returned)
    conns,          \* the connections the Server accepted, in order
    relays,         \* the Relay objects Server._handler constructed, in order
    tables          \* the dicts the Relay objects created: id_futures, event_futures, with their futures

vars == <<type_handlers, resolved, event, last_e, loop, id_futures, event_futures,
          futures, tasks, log, uuids, now, nticks, nregs,
          workflows, raised, conns, relays, tables>>

registryVars == <<type_handlers, resolved, event, nregs>>
sessionVars == <<last_e, loop, id_futures, event_futures, futures, tasks, log, uuids, now, nticks>>
serverVars == <<workflows, raised, conns, relays, tables>>

-----------------------------------------------------------------------------
(* Bounds of the model. *)

MaxTasks == 2       \* handler executions spawned in one session
MaxReqs == 2        \* requests issued through _send_receive in one session
MaxTicks == 1       \* advances of the wall clock
MaxRegs == 3        \* registrations made on one Workflow
MaxConns == 2       \* connections accepted by one Server

(* Program constants. *)

AgeCeiling == 1800      \* _pop_event_match purges waiters older than this many seconds
WaitTimeout == 30       \* say_and_wait and play_and_wait wait this long for the prompt event

\* the steps of the clock: enough for a wait to time out, and for a waiter to pass the age ceiling
TickSizes == {WaitTimeout, AgeCeiling + 1}

-----------------------------------------------------------------------------
(* Python values. *)

None == "None"
KeyError == "KeyError"

\* dict.get(key, None)
Get(d, k) == IF k \in DOMAIN d THEN d[k] ELSE None

\* a pop that leaves the key in the dict
WithoutNothing(d, k) == d

\* dict.pop(key, None): the dict without the key
Without(d, k) == [x \in DOMAIN d \ {k} |-> d[x]]

\* the items of an ordered dict without the i-th
RemoveAt(s, i) == [j \in 1..(Len(s) - 1) |-> IF j < i THEN s[j] ELSE s[j + 1]]

\* an id source that hands out the same value at every draw
UuidSame(n) == "1"

\* uuid.uuid4().hex: the n-th value drawn; distinct draws give distinct values
Uuid(n) == ToString(n)

NoMsg == ("_none" :> "")

\* an exception object: its class and its message
Exc(class, message) == ("exception" :> class @@ "message" :> message)

\* Server.__init__: self.workflows = {}; nothing accepted yet
NoServer ==
    /\ workflows = [p \in {} |-> "None"]
    /\ raised = NoMsg
    /\ conns = << >>
    /\ relays = << >>
    /\ tables = << >>

-----------------------------------------------------------------------------
(* Workflow: the handler registry.                                         *)
(* A key of type_handlers is a bare tag, kept as <<tag>>, or the tuple     *)
(* <<tag, d1, d2>>; a handler routine is named by a string.                *)

BUTTON == "wf_api_button_event"
NOTIFICATION == "wf_api_notification_event"
TIMER == "wf_api_timer_event"
START == "wf_api_start_event"
STOP == "wf_api_stop_event"
PROMPT == "wf_api_prompt_event"
ERROR_RESPONSE == "wf_api_error_response"

\* an assignment that stores nothing
RegisterNothing(th, key, func) == th

\* a registration that keeps the handler a key already has
RegisterKeepsFirst(th, key, func) == IF key \in DOMAIN th THEN th ELSE th @@ (key :> func)

\* self.type_handlers[key] = func
Register(th, key, func) == [k \in DOMAIN th \cup {key} |-> IF k = key THEN func ELSE th[k]]

\* Workflow.__init__: self.type_handlers = {}
EmptyRegistry == [k \in {} |-> None]

\* the lookups with the second dimension preferred over the first
LookupsSecondFirst(th, t, d1, d2) ==
    LET h1 == Get(th, <<t, d1, d2>>)
        h2 == Get(th, <<t, d1, "*">>)
        h3 == Get(th, <<t, "*", d2>>)
        h4 == Get(th, <<t, "*", "*">>)
    IN  IF h1 # None THEN h1
        ELSE IF h3 # None THEN h3
        ELSE IF h2 # None THEN h2
        ELSE h4

\* the four lookups of get_handler for a two-dimensional event, in the order the code makes them
Lookups(th, t, d1, d2) ==
    LET h1 == Get(th, <<t, d1, d2>>)
        h2 == Get(th, <<t, d1, "*">>)
        h3 == Get(th, <<t, "*", d2>>)
        h4 == Get(th, <<t, "*", "*">>)
    IN  IF h1 # None THEN h1
        ELSE IF h2 # None THEN h2
        ELSE IF h3 # None THEN h3
        ELSE h4

\* a get_handler that takes every message with a correlation id for a response
get_handler_skips_ids(th, e) ==
    IF "_id" \in DOMAIN e THEN None
    ELSE IF "_type" \notin DOMAIN e THEN KeyError
    ELSE LET t == e["_type"]
             h == Get(th, <<t>>)
         IN  IF h # None THEN h
             ELSE IF t = BUTTON THEN Lookups(th, t, e["button"], e["taps"])
             ELSE IF t = NOTIFICATION THEN Lookups(th, t, e["name"], e["event"])
             ELSE None

\* Workflow.get_handler: the handler, None, or KeyError when a field the code subscripts is absent
get_handler(th, e) ==
    IF "_type" \notin DOMAIN e THEN KeyError
    ELSE LET t == e["_type"]
             h == Get(th, <<t>>)
         IN  IF h # None THEN h
             ELSE IF t = BUTTON
                  THEN IF "button" \notin DOMAIN e \/ "taps" \notin DOMAIN e THEN KeyError
                       ELSE Lookups(th, t, e["button"], e["taps"])
             ELSE IF t = NOTIFICATION
                  THEN IF "name" \notin DOMAIN e \/ "event" \notin DOMAIN e THEN KeyError
                       ELSE Lookups(th, t, e["name"], e["event"])
             ELSE None

(* The registrations and events of the registry model. *)

Funcs == {"f", "g"}
Buttons == {"action", "channel"}
Taps == {"single", "double"}
Names == {"n"}
Events == {"e1"}

ButtonEvent(b, t) ==
    ("_type" :> BUTTON @@ "button" :> b @@ "taps" :> t @@ "source_uri" :> "urn:device")
NotificationEvent(n, e) ==
    ("_type" :> NOTIFICATION @@ "name" :> n @@ "event" :> e
        @@ "notification_state" :> "state" @@ "source_uri" :> "urn:device")
TimerEvent == ("_type" :> TIMER)
StopEvent == ("_type" :> STOP @@ "reason" :> "normal")
StartEvent == ("_type" :> START @@ "trigger" :> "button")

RegistryEvents ==
    {ButtonEvent(b, t) : b \in Buttons, t \in Taps}
        \cup {NotificationEvent(n, e) : n \in Names, e \in Events}
        \cup {TimerEvent, StopEvent, StartEvent}

\* Workflow.on_button(button=..., taps=...)
on_button(func, button, taps) ==
    /\ nregs < MaxRegs
    /\ type_handlers' = Register(type_handlers, <<BUTTON, button, taps>>, func)
    /\ nregs' = nregs + 1
    /\ resolved' = None
    /\ event' = NoMsg

\* Workflow.on_notification(name=..., event=...)
on_notification(func, name, ev) ==
    /\ nregs < MaxRegs
    /\ type_handlers' = Register(type_handlers, <<NOTIFICATION, name, ev>>, func)
    /\ nregs' = nregs + 1
    /\ resolved' = None
    /\ event' = NoMsg

\* Workflow.on_start
on_start(func) ==
    /\ nregs < MaxRegs
    /\ type_handlers' = Register(type_handlers, <<START>>, func)
    /\ nregs' = nregs + 1
    /\ resolved' = None
    /\ event' = NoMsg

\* Workflow.on_timer
on_timer(func) ==
    /\ nregs < MaxRegs
    /\ type_handlers' = Register(type_handlers, <<TIMER>>, func)
    /\ nregs' = nregs + 1
    /\ resolved' = None
    /\ event' = NoMsg

\* a call of Workflow.get_handler on the registry as it stands
GetHandler(e) ==
    /\ event' = e
    /\ resolved' = get_handler(type_handlers, e)
    /\ UNCHANGED <<type_handlers, nregs>>

-----------------------------------------------------------------------------
(* Relay: one session.                                                     *)

\* the workflow of tests/all_features.py, which the session is bound to
AllFeatures ==
    (<<START>> :> "start_handler"
        @@ <<BUTTON, "action", "single">> :> "handle_action_single_tap"
        @@ <<BUTTON, "action", "*">> :> "handle_action"
        @@ <<BUTTON, "*", "double">> :> "handle_double_tap"
        @@ <<BUTTON, "*", "*">> :> "handle_button"
        @@ <<NOTIFICATION, "*", "*">> :> "handle_notification"
        @@ <<TIMER>> :> "handle_timer")

\* asyncio.get_event_loop().create_future()
NewFuture(kind) == [kind |-> kind, st |-> "pending", res |-> NoMsg]

\* Future.set_result: InvalidStateError (ok = FALSE) unless the future is pending
set_result(fs, f, m) ==
    IF fs[f].st = "pending"
    THEN [ok |-> TRUE, futures |-> [fs EXCEPT ![f] = [@ EXCEPT !.st = "done", !.res = m]]]
    ELSE [ok |-> FALSE, futures |-> fs]

\* the outcome of a call: nothing yet, a value returned, or an exception raised
NoOutcome == [kind |-> "none", val |-> NoMsg]
Returned(v) == [kind |-> "returned", val |-> v]
Raised(x) == [kind |-> "raised", val |-> x]

\* a criteria loop that skips the criteria keys the event does not have
MatchesPresentKeys(criteria, e) == \A k \in DOMAIN criteria : k \in DOMAIN e => e[k] = criteria[k]

\* the inner loop of _pop_event_match over the keys of a waiter's item that are left:
\* '_timestamp' and '_future' are skipped; a key the event lacks, or holds with another
\* value, sets matches = False and breaks
RECURSIVE CriteriaLoop(_, _, _)
CriteriaLoop(match_data, e, keys) ==
    IF keys = {} THEN TRUE
    ELSE LET key == CHOOSE k \in keys : TRUE
         IN  IF key = "_timestamp" \/ key = "_future"
             THEN CriteriaLoop(match_data, e, keys \ {key})
             ELSE IF key \notin DOMAIN e THEN FALSE
             ELSE IF match_data[key] # e[key] THEN FALSE
             ELSE CriteriaLoop(match_data, e, keys \ {key})

\* the item _set_event_match stores is the criteria plus '_timestamp' and '_future' (kept
\* apart in the model's records); the loop runs over all its keys
Matches(criteria, e) ==
    LET match_data == criteria @@ ("_timestamp" :> "time" @@ "_future" :> "future")
    IN  CriteriaLoop(match_data, e, DOMAIN match_data)

\* a scan without the age test: every waiter stays eligible however old it is
RECURSIVE ScanEventMatchNoPurge(_, _, _, _)
ScanEventMatchNoPurge(ef, e, t, i) ==
    IF i > Len(ef) THEN [kind |-> "none", fut |-> 0, ef |-> ef]
    ELSE IF Matches(ef[i].criteria, e)
         THEN [kind |-> "match", fut |-> ef[i].future, ef |-> RemoveAt(ef, i)]
    ELSE ScanEventMatchNoPurge(ef, e, t, i + 1)

\* Relay._pop_event_match from the i-th item on: the first item past the age ceiling is
\* popped inside the for loop over the dict, which makes the loop's next step raise
\* RuntimeError (dictionary changed size during iteration); the first match is popped
\* and its future returned
RECURSIVE ScanEventMatch(_, _, _, _)
ScanEventMatch(ef, e, t, i) ==
    IF i > Len(ef) THEN [kind |-> "none", fut |-> 0, ef |-> ef]
    ELSE IF t - ef[i].timestamp > AgeCeiling
         THEN [kind |-> "RuntimeError", fut |-> 0, ef |-> RemoveAt(ef, i)]
    ELSE IF Matches(ef[i].criteria, e)
         THEN [kind |-> "match", fut |-> ef[i].future, ef |-> RemoveAt(ef, i)]
    ELSE ScanEventMatch(ef, e, t, i + 1)

\* a _pop_event_match that hands out the first waiter whatever its criteria
pop_event_match_first(ef, e, t) ==
    IF ef = << >> THEN [kind |-> "none", fut |-> 0, ef |-> ef]
    ELSE [kind |-> "match", fut |-> ef[1].future, ef |-> Tail(ef)]

\* a _pop_event_match that hands out the latest-registered matching waiter
pop_event_match_last(ef, e, t) ==
    LET r == ScanEventMatch(ef, e, t, 1)
        hits == {i \in DOMAIN ef : Matches(ef[i].criteria, e)}
        l == CHOOSE i \in hits : \A j \in hits : j <= i
    IN  IF r.kind # "match" THEN r
        ELSE [kind |-> "match", fut |-> ef[l].future, ef |-> RemoveAt(ef, l)]

pop_event_match(ef, e, t) == ScanEventMatch(ef, e, t, 1)

\* the fields of the event that _handle passes to the handler, by _type
ArgFields(t) ==
    IF t = START THEN <<"trigger">>
    ELSE IF t = STOP THEN <<"reason">>
    ELSE IF t = PROMPT THEN <<"source_uri", "type">>
    ELSE IF t = BUTTON THEN <<"button", "taps", "source_uri">>
    ELSE IF t = NOTIFICATION THEN <<"event", "name", "notification_state", "source_uri">>
    ELSE << >>

\* an elif chain without the prompt branch: prompt events feed waiters only
SpawningNoPrompt == {START, STOP, BUTTON, NOTIFICATION, TIMER}

\* the _type values the elif chain of _handle spawns a handler for
Spawning == {START, STOP, PROMPT, BUTTON, NOTIFICATION, TIMER}

\* a handler execution as asyncio.create_task(self._wrapper(h, *args)) leaves it
NewTask(h, args) ==
    [h |-> h, args |-> args, pc |-> "run", op |-> "none", id |-> None, f |-> 0, ef |-> 0,
     deadline |-> 0, sr |-> NoOutcome, wt |-> NoOutcome, exc |-> NoMsg]

LogEntry(ev, id, what) == [ev |-> ev, id |-> id, what |-> what]

\* the ids of the requests transmitted so far
SentIds == {log[i].id : i \in {j \in DOMAIN log : log[j].ev = "send"}}

\* the requests issued so far: each created one future of kind "id"
NumReqs == Cardinality({i \in DOMAIN futures : futures[i].kind = "id"})

\* the terminate request has been transmitted
Terminated == \E i \in DOMAIN log : log[i].ev = "send" /\ log[i].what = "wf_api_terminate_request"

\* a correlation branch taken only by messages no handler is registered for
CorrelatedUnlessHandled(idf, m) ==
    "_id" \in DOMAIN m /\ m["_id"] \in DOMAIN idf /\ get_handler(type_handlers, m) = None

\* the correlation branch of _handle: fut = self.id_futures.pop(_id, None); if fut:
Correlated(idf, m) == "_id" \in DOMAIN m /\ m["_id"] \in DOMAIN idf

\* the oldest pending entry's future instead of the one stored under the message's id
PopFutureOldest(idf, m) == idf[CHOOSE k \in DOMAIN idf : \A k2 \in DOMAIN idf : idf[k] <= idf[k2]]

\* the future self.id_futures.pop(_id, None) returns for a correlated message
PopFuture(idf, m) == idf[m["_id"]]

\* a dispatch that runs every handler whose key fits a button event: the one resolution
\* selects and the wildcard one
DispatchAll(m) ==
    IF "_type" \in DOMAIN m /\ m["_type"] = BUTTON
          /\ \A i \in DOMAIN ArgFields(BUTTON) : ArgFields(BUTTON)[i] \in DOMAIN m
          /\ <<BUTTON, "*", "*">> \in DOMAIN type_handlers
    THEN LET args == [i \in DOMAIN ArgFields(BUTTON) |-> m[ArgFields(BUTTON)[i]]]
         IN  [loop |-> "running",
              spawn |-> <<NewTask(Lookups(type_handlers, BUTTON, m["button"], m["taps"]), args),
                          NewTask(type_handlers[<<BUTTON, "*", "*">>], args)>>]
    ELSE [loop |-> "running", spawn |-> << >>]

\* the handler dispatch of _handle for a message that was not correlated: get_handler, then
\* the elif chain that subscripts the event's fields and spawns the handler; a KeyError
\* lands in the loop's except clause and ends the loop
DispatchOn(th, m) ==
    LET h == get_handler(th, m)
        fields == ArgFields(m["_type"])
    IN  IF h = KeyError THEN [loop |-> "closed", spawn |-> << >>]
        ELSE IF h = None \/ m["_type"] \notin Spawning THEN [loop |-> "running", spawn |-> << >>]
        ELSE IF \E i \in DOMAIN fields : fields[i] \notin DOMAIN m
             THEN [loop |-> "closed", spawn |-> << >>]
        ELSE [loop |-> "running",
              spawn |-> <<NewTask(h, [i \in DOMAIN fields |-> m[fields[i]]])>>]

\* the dispatch of the session: its workflow's registry is type_handlers
Dispatch(m) == DispatchOn(type_handlers, m)

\* the body of the async-for of _handle for one message m, on the tables idf (id_futures)
\* and efs (event_futures) of the Relay, its futures fs and its n executions, at time t,
\* with d what the handler dispatch does for m: what it leaves behind
handle_on(idf, efs, fs, n, t, m, d) ==
    IF Correlated(idf, m)
    THEN LET s == set_result(fs, PopFuture(idf, m), m)
         IN  [loop |-> IF s.ok THEN "running" ELSE "closed",
              id_futures |-> Without(idf, m["_id"]),
              event_futures |-> efs,
              futures |-> s.futures,
              spawn |-> << >>,
              logged |-> IF s.ok THEN <<LogEntry("recv", m["_id"], Get(m, "_type"))>> ELSE << >>]
    ELSE LET r == pop_event_match(efs, m, t)
             s == IF r.kind = "match" THEN set_result(fs, r.fut, m)
                  ELSE [ok |-> TRUE, futures |-> fs]
             dd == IF r.kind = "RuntimeError" \/ ~s.ok
                   THEN [loop |-> "closed", spawn |-> << >>]
                   ELSE d
         IN  [loop |-> dd.loop,
              id_futures |-> idf,
              event_futures |-> r.ef,
              futures |-> s.futures,
              spawn |-> dd.spawn,
              logged |-> IF dd.spawn = << >> THEN << >>
                         ELSE <<LogEntry("spawn", ToString(n + 1), dd.spawn[1].h)>>]

\* the same for the session
handle(m) == handle_on(id_futures, event_futures, futures, Len(tasks), now, m, Dispatch(m))

\* a read loop that stops reading once terminate has been sent
ReadEnabledUntilTerminate == loop = "running" /\ ~Terminated

\* a read loop that goes on reading after it has ended
ReadEnabledAlways == TRUE

\* a loop that awaits the handler it spawned before it reads on
ReadEnabledAfterHandlers == loop = "running" /\ \A t \in DOMAIN tasks : tasks[t].pc \in {"done", "failed"}

\* async for m in websocket: the loop reads the next message whenever it is running; it
\* awaits none of the executions it spawned
ReadEnabled == loop = "running"

\* one turn of the read loop of _handle on message m
Recv(m) ==
    /\ ReadEnabled
    /\ LET r == handle(m)
       IN  /\ Len(tasks) + Len(r.spawn) <= MaxTasks
           /\ loop' = r.loop
           /\ id_futures' = r.id_futures
           /\ event_futures' = r.event_futures
           /\ futures' = r.futures
           /\ tasks' = tasks \o r.spawn
           /\ log' = log \o r.logged
    /\ UNCHANGED <<uuids, now, nticks>>
    /\ UNCHANGED <<registryVars, serverVars>>

\* a teardown that fails every pending future when the loop ends
TransportCloseFailsPending ==
    /\ loop = "running"
    /\ loop' = "closed"
    /\ futures' = [f \in DOMAIN futures |->
                      IF futures[f].st = "pending"
                      THEN [futures[f] EXCEPT !.st = "done",
                                              !.res = ("_type" :> ERROR_RESPONSE @@ "error" :> "closed")]
                      ELSE futures[f]]
    /\ UNCHANGED <<last_e, id_futures, event_futures, tasks, log, uuids, now, nticks>>
    /\ UNCHANGED <<registryVars, serverVars>>

\* the transport closes or fails while the loop reads: ConnectionClosedError (or the end of
\* the iteration) ends the loop
TransportClose ==
    /\ loop = "running"
    /\ loop' = "closed"
    /\ UNCHANGED <<last_e, id_futures, event_futures, futures, tasks, log, uuids, now, nticks>>
    /\ UNCHANGED <<registryVars, serverVars>>

(* The messages the controller sends. It learns a request id only from the  *)
(* request, so it answers transmitted requests; any other id it sends is    *)
(* unknown to the session.                                                  *)

Response(id) == ("_id" :> id @@ "_type" :> "wf_api_say_response")
ErrorResponse(id) == ("_id" :> id @@ "_type" :> ERROR_RESPONSE @@ "error" :> "failed")
PromptStopped(id) ==
    ("_type" :> PROMPT @@ "type" :> "stopped" @@ "id" :> id @@ "source_uri" :> "urn:device")
UnknownId == "unknown"

Inbound ==
    {ButtonEvent("action", "single"), StopEvent,
     Response(UnknownId), ButtonEvent("action", "single") @@ ("_id" :> UnknownId)}
        \cup {Response(id) : id \in SentIds}
        \cup {ErrorResponse(id) : id \in SentIds}
        \cup {PromptStopped(id) : id \in SentIds}

(* The handler executions.                                                  *)

Ops == {"say", "say_and_wait"}
\* no operation registers a waiter before it sends
WaitingOpsNone == {}

\* the operations that register a waiter (_set_event_match) before they send
WaitingOps == {"say_and_wait"}

\* every operation awaits a response to what it sends
SendOnlyNone == {}

\* the operations that transmit through _send, which awaits no response
SendOnly == {"terminate"}

\* the request each operation builds
RequestType(op) == IF op = "terminate" THEN "wf_api_terminate_request" ELSE "wf_api_say_request"

\* the criteria say_and_wait gives to _set_event_match
Criteria(op, id) == ("_type" :> PROMPT @@ "type" :> "stopped" @@ "id" :> id)

\* a _wrapper without its except clause, awaited by the read loop
wrapper_propagates(l, x) == "closed"

\* Relay._wrapper's except clause: the exception is logged and goes no further, so the
\* read loop is as it was
wrapper(l, x) == l

\* the task after an exception left the handler and reached _wrapper
Failed(tk, x) == [tk EXCEPT !.pc = "failed", !.exc = x]

\* _send_receive returning the response without its correlation id
send_receive_result_strips(rsp) ==
    IF "_type" \notin DOMAIN rsp THEN Raised(Exc("KeyError", "_type"))
    ELSE IF rsp["_type"] = ERROR_RESPONSE
         THEN IF "error" \notin DOMAIN rsp THEN Raised(Exc("KeyError", "error"))
              ELSE Raised(Exc("WorkflowException", rsp["error"]))
    ELSE Returned(Without(rsp, "_id"))

\* _send_receive without the test for an error response
send_receive_result_unchecked(rsp) == Returned(rsp)

\* _send_receive after await fut: rsp = fut.result(); an error response raises
\* WorkflowException(rsp['error']); anything else is returned as it is
send_receive_result(rsp) ==
    IF "_type" \notin DOMAIN rsp THEN Raised(Exc("KeyError", "_type"))
    ELSE IF rsp["_type"] = ERROR_RESPONSE
         THEN IF "error" \notin DOMAIN rsp THEN Raised(Exc("KeyError", "error"))
              ELSE Raised(Exc("WorkflowException", rsp["error"]))
    ELSE Returned(rsp)

\* _wait_for_event_match after wait_for returned: event = future.result(), same test
event_match_result(e) ==
    IF "_type" \notin DOMAIN e THEN Raised(Exc("KeyError", "_type"))
    ELSE IF e["_type"] = ERROR_RESPONSE
         THEN IF "error" \notin DOMAIN e THEN Raised(Exc("KeyError", "error"))
              ELSE Raised(Exc("WorkflowException", e["error"]))
    ELSE Returned(e)

\* a handler that issues its next request while the previous one is still awaited
CanCallSuspended(tk) == tk.pc \in {"run", "await"}

\* a handler execution is one coroutine: it reaches its next call only when its code is
\* running, that is after every await before it has returned
CanCall(tk) == tk.pc = "run"

\* the handler calls say or say_and_wait: the code up to the await of _send_str.
\* say_and_wait draws _id, registers the waiter (_set_event_match), then enters
\* _send_receive, which creates the future and stores it under _id
Call(t, op) ==
    /\ t \in DOMAIN tasks
    /\ CanCall(tasks[t])
    /\ NumReqs < MaxReqs
    /\ LET waits == op \in WaitingOps
           id == Uuid(uuids + 1)
           uid == Uuid(uuids + 2)
           ef == IF waits THEN Len(futures) + 1 ELSE 0
           f == IF waits THEN Len(futures) + 2 ELSE Len(futures) + 1
       IN  /\ futures' = IF waits THEN futures \o <<NewFuture("event"), NewFuture("id")>>
                         ELSE Append(futures, NewFuture("id"))
           /\ event_futures' =
                IF waits
                THEN Append(event_futures,
                            [uid |-> uid, criteria |-> Criteria(op, id),
                             timestamp |-> now, future |-> ef])
                ELSE event_futures
           /\ id_futures' = Register(id_futures, id, f)
           /\ uuids' = IF waits THEN uuids + 2 ELSE uuids + 1
           /\ tasks' = [tasks EXCEPT ![t] =
                            [@ EXCEPT !.pc = "send", !.op = op, !.id = id, !.f = f, !.ef = ef,
                                      !.deadline = 0, !.sr = NoOutcome, !.wt = NoOutcome]]
    /\ UNCHANGED <<last_e, loop, log, now, nticks>>
    /\ UNCHANGED <<registryVars, serverVars>>

\* the handler calls terminate: _send up to the await of _send_str. It draws the id it
\* stamps on the request and creates no future
terminate(t) ==
    /\ t \in DOMAIN tasks
    /\ tasks[t].pc = "run"
    /\ uuids < MaxReqs
    /\ uuids' = uuids + 1
    /\ tasks' = [tasks EXCEPT ![t] =
                    [@ EXCEPT !.pc = "send", !.op = "terminate", !.id = Uuid(uuids + 1),
                              !.f = 0, !.ef = 0, !.deadline = 0,
                              !.sr = NoOutcome, !.wt = NoOutcome]]
    /\ UNCHANGED <<last_e, loop, id_futures, event_futures, futures, log, now, nticks>>
    /\ UNCHANGED <<registryVars, serverVars>>

\* _send_str: await self.websocket.send(s). On a connection whose read loop has ended the
\* send raises ConnectionClosed, which leaves the handler. After the send _send returns to
\* the handler, and _send_receive goes on to await fut
Transmit(t) ==
    /\ t \in DOMAIN tasks
    /\ tasks[t].pc = "send"
    /\ IF loop = "running"
       THEN /\ tasks' = [tasks EXCEPT ![t].pc =
                            IF tasks[t].op \in SendOnly THEN "run" ELSE "await"]
            /\ log' = Append(log, LogEntry("send", tasks[t].id, RequestType(tasks[t].op)))
            /\ loop' = loop
       ELSE LET x == Exc("ConnectionClosed", "")
            IN  /\ tasks' = [tasks EXCEPT ![t] = Failed([@ EXCEPT !.sr = Raised(x)], x)]
                /\ log' = Append(log, LogEntry("raise", ToString(t), x["exception"]))
                /\ loop' = wrapper(loop, x)
    /\ UNCHANGED <<last_e, id_futures, event_futures, futures, uuids, now, nticks>>
    /\ UNCHANGED <<registryVars, serverVars>>

\* _send_receive resumes from await fut once the future is done. say returns to the
\* handler; say_and_wait goes on into _wait_for_event_match(event_future, 30)
Resume(t) ==
    /\ t \in DOMAIN tasks
    /\ tasks[t].pc = "await"
    /\ futures[tasks[t].f].st = "done"
    /\ LET out == send_receive_result(futures[tasks[t].f].res)
       IN  IF out.kind = "raised"
           THEN /\ tasks' = [tasks EXCEPT ![t] = Failed([@ EXCEPT !.sr = out], out.val)]
                /\ log' = Append(log, LogEntry("raise", ToString(t), out.val["exception"]))
                /\ loop' = wrapper(loop, out.val)
           ELSE /\ tasks' = [tasks EXCEPT ![t] =
                                IF tasks[t].op \in WaitingOps
                                THEN [@ EXCEPT !.sr = out, !.pc = "wait",
                                               !.deadline = now + WaitTimeout]
                                ELSE [@ EXCEPT !.sr = out, !.pc = "run"]]
                /\ UNCHANGED <<log, loop>>
    /\ UNCHANGED <<last_e, id_futures, event_futures, futures, uuids, now, nticks>>
    /\ UNCHANGED <<registryVars, serverVars>>

\* asyncio.wait_for(future, timeout) returns: the waiter's future is done
WaitResume(t) ==
    /\ t \in DOMAIN tasks
    /\ tasks[t].pc = "wait"
    /\ futures[tasks[t].ef].st = "done"
    /\ LET out == event_match_result(futures[tasks[t].ef].res)
       IN  IF out.kind = "raised"
           THEN /\ tasks' = [tasks EXCEPT ![t] = Failed([@ EXCEPT !.wt = out], out.val)]
                /\ log' = Append(log, LogEntry("raise", ToString(t), out.val["exception"]))
                /\ loop' = wrapper(loop, out.val)
           ELSE /\ tasks' = [tasks EXCEPT ![t] = [@ EXCEPT !.wt = out, !.pc = "run"]]
                /\ UNCHANGED <<log, loop>>
    /\ UNCHANGED <<last_e, id_futures, event_futures, futures, uuids, now, nticks>>
    /\ UNCHANGED <<registryVars, serverVars>>

\* what _wait_for_event_match does to event_futures when wait_for times out: nothing, the
\* TimeoutError passes through it
on_timeout(efs, f) == efs

\* every await of _send_receive and _wait_for_event_match under a timeout
TimedWaitAll(tk) == tk.pc \in {"await", "wait"} /\ tk.ef # 0

\* the awaits that run under asyncio.wait_for: the one of _wait_for_event_match only;
\* _send_receive awaits its future without a timeout
TimedWait(tk) == tk.pc = "wait"

\* asyncio.wait_for(future, timeout) times out: it cancels the future and raises
\* TimeoutError, which leaves _wait_for_event_match and the handler
Timeout(t) ==
    /\ t \in DOMAIN tasks
    /\ TimedWait(tasks[t])
    /\ futures[tasks[t].ef].st = "pending"
    /\ now >= tasks[t].deadline
    /\ LET x == Exc("TimeoutError", "")
       IN  /\ futures' = [futures EXCEPT ![tasks[t].ef].st = "cancelled"]
           /\ event_futures' = on_timeout(event_futures, tasks[t].ef)
           /\ tasks' = [tasks EXCEPT ![t] = Failed([@ EXCEPT !.wt = Raised(x)], x)]
           /\ log' = Append(log, LogEntry("raise", ToString(t), x["exception"]))
           /\ loop' = wrapper(loop, x)
    /\ UNCHANGED <<last_e, id_futures, uuids, now, nticks>>
    /\ UNCHANGED <<registryVars, serverVars>>

\* the handler's own code raises
HandlerRaise(t) ==
    /\ t \in DOMAIN tasks
    /\ tasks[t].pc = "run"
    /\ LET x == Exc("Exception", "handler")
       IN  /\ tasks' = [tasks EXCEPT ![t] = Failed(@, x)]
           /\ log' = Append(log, LogEntry("raise", ToString(t), x["exception"]))
           /\ loop' = wrapper(loop, x)
    /\ UNCHANGED <<last_e, id_futures, event_futures, futures, uuids, now, nticks>>
    /\ UNCHANGED <<registryVars, serverVars>>

\* the handler returns
HandlerReturn(t) ==
    /\ t \in DOMAIN tasks
    /\ tasks[t].pc = "run"
    /\ tasks' = [tasks EXCEPT ![t].pc = "done"]
    /\ UNCHANGED <<last_e, loop, id_futures, event_futures, futures, log, uuids, now, nticks>>
    /\ UNCHANGED <<registryVars, serverVars>>

\* the wall clock advances
Tick(d) ==
    /\ nticks < MaxTicks
    /\ now' = now + d
    /\ nticks' = nticks + 1
    /\ UNCHANGED <<last_e, loop, id_futures, event_futures, futures, tasks, log, uuids>>
    /\ UNCHANGED <<registryVars, serverVars>>

-----------------------------------------------------------------------------
(* The session: Relay(workflow) as Relay.__init__ leaves it, then _handle.  *)

Init ==
    /\ type_handlers = AllFeatures
    /\ resolved = None
    /\ event = NoMsg
    /\ nregs = 0
    /\ last_e = NoMsg
    /\ loop = "running"
    /\ id_futures = [k \in {} |-> 0]
    /\ event_futures = << >>
    /\ futures = << >>
    /\ tasks = << >>
    /\ log = << >>
    /\ uuids = 0
    /\ now = 0
    /\ nticks = 0
    /\ NoServer

\* the session whose handlers call say: requests and their correlated responses
Next ==
    \/ \E m \in Inbound : Recv(m) /\ last_e' = m
    \/ TransportClose
    \/ \E t \in DOMAIN tasks : Call(t, "say")
    \/ \E t \in DOMAIN tasks : Transmit(t)
    \/ \E t \in DOMAIN tasks : Resume(t)
    \/ \E t \in DOMAIN tasks : HandlerRaise(t)
    \/ \E t \in DOMAIN tasks : HandlerReturn(t)

Spec == Init /\ [][Next]_vars

\* the session whose handlers call say_and_wait: waiters, their timeouts and the clock
WaitNext ==
    \/ \E m \in Inbound : Recv(m) /\ UNCHANGED last_e
    \/ TransportClose
    \/ \E t \in DOMAIN tasks : Call(t, "say_and_wait")
    \/ \E t \in DOMAIN tasks : Transmit(t)
    \/ \E t \in DOMAIN tasks : Resume(t)
    \/ \E t \in DOMAIN tasks : WaitResume(t)
    \/ \E t \in DOMAIN tasks : Timeout(t)
    \/ \E t \in DOMAIN tasks : HandlerReturn(t)
    \/ \E d \in TickSizes : Tick(d)

WaitSpec == Init /\ [][WaitNext]_vars

\* the event loop runs every coroutine that is ready and fires every timer that is due, and
\* the clock advances; what the controller sends and what the handlers choose to do is
\* under no obligation
Fairness ==
    /\ \A t \in 1..MaxTasks :
        /\ WF_vars(Transmit(t))
        /\ WF_vars(Resume(t))
        /\ WF_vars(WaitResume(t))
        /\ WF_vars(Timeout(t))
    /\ WF_vars(\E d \in TickSizes : Tick(d))

FairWaitSpec == WaitSpec /\ Fairness

(* The sessions whose transport stays open and whose controller answers     *)
(* every request it has received.                                           *)

\* the ids a session can draw
DrawnIds == {Uuid(n) : n \in 1..(2 * MaxReqs)}

\* the controller sends the response to a request it received, and the loop, while it
\* runs, reads it
Answered == \A id \in DrawnIds : WF_vars(id \in SentIds /\ Recv(Response(id)) /\ UNCHANGED last_e)

\* handlers that call say_and_wait, no transport close
AnsweredWaitNext ==
    \/ \E m \in Inbound : Recv(m) /\ UNCHANGED last_e
    \/ \E t \in DOMAIN tasks : Call(t, "say_and_wait")
    \/ \E t \in DOMAIN tasks : Transmit(t)
    \/ \E t \in DOMAIN tasks : Resume(t)
    \/ \E t \in DOMAIN tasks : WaitResume(t)
    \/ \E t \in DOMAIN tasks : Timeout(t)
    \/ \E t \in DOMAIN tasks : HandlerReturn(t)
    \/ \E d \in TickSizes : Tick(d)

AnsweredWaitSpec == Init /\ [][AnsweredWaitNext]_vars /\ Fairness /\ Answered

\* handlers that call say only, no transport close
AnsweredSayNext ==
    \/ \E m \in Inbound : Recv(m) /\ UNCHANGED last_e
    \/ \E t \in DOMAIN tasks : Call(t, "say")
    \/ \E t \in DOMAIN tasks : Transmit(t)
    \/ \E t \in DOMAIN tasks : Resume(t)
    \/ \E t \in DOMAIN tasks : HandlerReturn(t)

AnsweredSaySpec == Init /\ [][AnsweredSayNext]_vars /\ Fairness /\ Answered

(* The session that also gets messages without a field the dispatcher reads. *)

\* the dict without the field k, as the controller would send it
Lacking(m, k) == [f \in DOMAIN m \ {k} |-> m[f]]

\* messages that decode but lack the discriminator, a wildcard dimension, or a field
\* passed to the handler
Malformed ==
    {Lacking(ButtonEvent("action", "single"), "_type"),
     Lacking(ButtonEvent("action", "single"), "button"),
     Lacking(ButtonEvent("action", "single"), "taps"),
     Lacking(ButtonEvent("action", "single"), "source_uri"),
     Lacking(NotificationEvent("n", "e1"), "name"),
     Lacking(NotificationEvent("n", "e1"), "event"),
     Lacking(NotificationEvent("n", "e1"), "notification_state")}

MalformedNext ==
    \/ \E m \in Inbound \cup Malformed : Recv(m) /\ last_e' = m
    \/ TransportClose
    \/ \E t \in DOMAIN tasks : Call(t, "say")
    \/ \E t \in DOMAIN tasks : Transmit(t)
    \/ \E t \in DOMAIN tasks : Resume(t)
    \/ \E t \in DOMAIN tasks : HandlerReturn(t)

MalformedSpec == Init /\ [][MalformedNext]_vars

(* The session with the messages in flight: what the controller has sent    *)
(* and the loop has not read yet, oldest first (kept in last_e).            *)

MaxInFlight == 2

\* a loop that reads the message that arrived last
NextIndexLast(q) == Len(q)

\* async for m in websocket: the iteration yields the messages in the order they arrived
NextIndex(q) == 1

OrderInbound ==
    {ButtonEvent("action", "single")} \cup {Response(id) : id \in SentIds}

\* the controller sends a message
Arrive(m) ==
    /\ Len(last_e) < MaxInFlight
    /\ last_e' = Append(last_e, m)
    /\ UNCHANGED <<loop, id_futures, event_futures, futures, tasks, log, uuids, now, nticks>>
    /\ UNCHANGED <<registryVars, serverVars>>

\* one turn of the read loop on the next message of the connection
Read ==
    /\ last_e # << >>
    /\ Recv(last_e[NextIndex(last_e)])
    /\ last_e' = RemoveAt(last_e, NextIndex(last_e))

OrderInit ==
    /\ type_handlers = AllFeatures
    /\ resolved = None
    /\ event = NoMsg
    /\ nregs = 0
    /\ last_e = << >>
    /\ loop = "running"
    /\ id_futures = [k \in {} |-> 0]
    /\ event_futures = << >>
    /\ futures = << >>
    /\ tasks = << >>
    /\ log = << >>
    /\ uuids = 0
    /\ now = 0
    /\ nticks = 0
    /\ NoServer

OrderNext ==
    \/ \E m \in OrderInbound : Arrive(m)
    \/ Read
    \/ \E t \in DOMAIN tasks : Call(t, "say") /\ UNCHANGED last_e
    \/ \E t \in DOMAIN tasks : Transmit(t) /\ UNCHANGED last_e
    \/ \E t \in DOMAIN tasks : Resume(t) /\ UNCHANGED last_e

OrderSpec == OrderInit /\ [][OrderNext]_vars

\* the session whose handlers call say and terminate
TermNext ==
    \/ \E m \in Inbound : Recv(m) /\ last_e' = m
    \/ TransportClose
    \/ \E t \in DOMAIN tasks : Call(t, "say")
    \/ \E t \in DOMAIN tasks : terminate(t)
    \/ \E t \in DOMAIN tasks : Transmit(t)
    \/ \E t \in DOMAIN tasks : Resume(t)
    \/ \E t \in DOMAIN tasks : HandlerReturn(t)

TermSpec == Init /\ [][TermNext]_vars

(* The session of a workflow that also registers a prompt handler: the      *)
(* events that feed a waiter and a handler alike, with the last message     *)
(* observed.                                                                *)

\* the workflow of tests/all_features.py with a handler registered through on_prompt
PromptWorkflow == Register(AllFeatures, <<PROMPT>>, "prompt_handler")

\* a prompt event without the source_uri that _handle passes to the prompt handler
PromptStoppedBare(id) == ("_type" :> PROMPT @@ "type" :> "stopped" @@ "id" :> id)

\* an event that carries the id of a request, as events with async response data do
ButtonWithId(id) == ButtonEvent("action", "single") @@ ("_id" :> id)

EventInbound ==
    {ButtonEvent("action", "single")}
        \cup {Response(id) : id \in SentIds}
        \cup {PromptStopped(id) : id \in SentIds}
        \cup {PromptStoppedBare(id) : id \in SentIds}
        \cup {ButtonWithId(id) : id \in SentIds}

EventInit ==
    /\ type_handlers = PromptWorkflow
    /\ resolved = None
    /\ event = NoMsg
    /\ nregs = 0
    /\ last_e = NoMsg
    /\ loop = "running"
    /\ id_futures = [k \in {} |-> 0]
    /\ event_futures = << >>
    /\ futures = << >>
    /\ tasks = << >>
    /\ log = << >>
    /\ uuids = 0
    /\ now = 0
    /\ nticks = 0
    /\ NoServer

EventNext ==
    \/ \E m \in EventInbound : Recv(m) /\ last_e' = m
    \/ \E t \in DOMAIN tasks : Call(t, "say_and_wait")
    \/ \E t \in DOMAIN tasks : Transmit(t)
    \/ \E t \in DOMAIN tasks : Resume(t)
    \/ \E t \in DOMAIN tasks : WaitResume(t)
    \/ \E t \in DOMAIN tasks : Timeout(t)
    \/ \E d \in TickSizes : Tick(d)

EventSpec == EventInit /\ [][EventNext]_vars

(* The Event Matcher on its own: one waiter, one event, and the one call of *)
(* _pop_event_match that _handle makes for the event.                       *)

MatchKeys == {"_type", "type", "id"}
MatchValues(k) ==
    IF k = "_type" THEN {PROMPT, "wf_api_speech_event"}
    ELSE IF k = "type" THEN {"stopped", "started"}
    ELSE IF k = "id" THEN {"1", "2"}
    ELSE IF k = "_id" THEN {"1", "9"}
    ELSE {"urn:device"}

\* the dicts over the keys ks, each key with one of its values
Dicts(ks) ==
    UNION {{d \in [K -> UNION {MatchValues(k) : k \in ks}] : \A k \in K : d[k] \in MatchValues(k)} :
              K \in SUBSET ks}

\* the criteria a caller may give to _set_event_match, and the events that may arrive
MatchCriteria == Dicts(MatchKeys)
MatchEvents == Dicts(MatchKeys \cup {"source_uri"})

MatchInit ==
    /\ type_handlers = AllFeatures
    /\ resolved = None
    /\ event \in MatchEvents
    /\ nregs = 0
    /\ last_e = NoMsg
    /\ loop = "running"
    /\ id_futures = [k \in {} |-> 0]
    /\ \E c \in MatchCriteria :
          event_futures = <<[uid |-> "1", criteria |-> c, timestamp |-> 0, future |-> 1]>>
    /\ futures = <<NewFuture("event")>>
    /\ tasks = << >>
    /\ log = << >>
    /\ uuids = 1
    /\ now = 0
    /\ nticks = 0
    /\ NoServer

\* future = self._pop_event_match(e); if future: future.set_result(e)
PopEventMatch ==
    /\ resolved = None
    /\ LET r == pop_event_match(event_futures, event, now)
       IN  /\ resolved' = r.kind
           /\ event_futures' = r.ef
           /\ futures' = IF r.kind = "match" THEN set_result(futures, r.fut, event).futures
                         ELSE futures
    /\ UNCHANGED <<type_handlers, event, nregs, last_e, loop, id_futures, tasks, log, uuids,
                   now, nticks>>
    /\ UNCHANGED serverVars

MatchNext == PopEventMatch

MatchSpec == MatchInit /\ [][MatchNext]_vars

(* One turn of the read loop on a session with one pending request and two  *)
(* waiters, whose criteria may overlap and whose age and state vary.        *)

MultiKeys == {"_type", "id"}
MultiCriteria == Dicts(MultiKeys) \ {<< >>}
MultiEvents == Dicts(MultiKeys \cup {"_id"})

MultiInit ==
    /\ type_handlers = AllFeatures
    /\ resolved = None
    /\ event \in MultiEvents
    /\ nregs = 0
    /\ last_e = NoMsg
    /\ loop = "running"
    /\ id_futures = ("1" :> 3)
    /\ now \in {0, AgeCeiling + 1}
    /\ \E c1, c2 \in MultiCriteria : \E ts \in {0, now} :
          event_futures = <<[uid |-> "2", criteria |-> c1, timestamp |-> 0, future |-> 1],
                            [uid |-> "3", criteria |-> c2, timestamp |-> ts, future |-> 2]>>
    /\ \E st1, st2 \in {"pending", "cancelled"} :
          futures = <<[NewFuture("event") EXCEPT !.st = st1],
                      [NewFuture("event") EXCEPT !.st = st2],
                      NewFuture("id")>>
    /\ tasks = << >>
    /\ log = << >>
    /\ uuids = 3
    /\ nticks = 0
    /\ NoServer

\* the loop reads the event
HandleOne ==
    /\ last_e = NoMsg
    /\ Recv(event)
    /\ last_e' = event

MultiNext == HandleOne

MultiSpec == MultiInit /\ [][MultiNext]_vars

(* Server: the workflows registered by path, and one Relay per connection   *)
(* accepted on a registered path.                                           *)

Paths == {"/a", "/b"}
WorkflowNames == {"all_features", "hello_world"}

\* the registry each workflow has built with its decorators
RegistryOf(w) ==
    IF w = "all_features" THEN AllFeatures
    ELSE Register(EmptyRegistry, <<START>>, "start_handler")

\* the request ids of the server model: the sessions draw from the same ids, so that ids
\* and criteria coincide across sessions
ReqIds == {"a"}

ServerInbound ==
    {ButtonEvent("action", "single")}
        \cup {Response(id) : id \in ReqIds}
        \cup {PromptStopped(id) : id \in ReqIds}

\* a register that rebinds a path that is already bound
register_overwrites(wfs, w, p) == [workflows |-> Register(wfs, p, w), raised |-> NoMsg]

\* Server.register: ServerException when the path is bound, else self.workflows[path] = workflow
register_result(wfs, w, p) ==
    IF p \in DOMAIN wfs
    THEN [workflows |-> wfs, raised |-> Exc("ServerException", p)]
    ELSE [workflows |-> Register(wfs, p, w), raised |-> NoMsg]

register(w, p) ==
    /\ workflows' = register_result(workflows, w, p).workflows
    /\ raised' = register_result(workflows, w, p).raised
    /\ UNCHANGED <<conns, relays, tables>>

\* a lookup that falls back on some registered workflow for an unregistered path
LookupWorkflowOrAny(wfs, p) ==
    IF p \in DOMAIN wfs THEN wfs[p]
    ELSE IF DOMAIN wfs = {} THEN None
    ELSE wfs[CHOOSE q \in DOMAIN wfs : TRUE]

\* Server._handler: workflow = self.workflows.get(path, None)
LookupWorkflow(wfs, p) == Get(wfs, p)

\* one pair of dicts held by every Relay
SharedTable(k) == 1

\* Relay.__init__ creates the dicts of the instance: the k-th Relay holds the k-th pair
OwnTable(k) == k

\* Relay.__init__: self.id_futures = {}; self.event_futures = {}; no future, no execution
NewTables ==
    [id_futures |-> [k \in {} |-> 0], event_futures |-> << >>, futures |-> << >>, tasks |-> << >>]

\* Server._handler for a connection on path p: a Relay for the path's workflow, whose
\* _handle then reads the connection; or websocket.close() when no workflow is registered
accept(p) ==
    /\ Len(conns) < MaxConns
    /\ LET workflow == LookupWorkflow(workflows, p)
       IN  IF workflow # None
           THEN /\ relays' = Append(relays, [workflow |-> workflow, tab |-> OwnTable(Len(relays) + 1)])
                /\ tables' = Append(tables, NewTables)
                /\ conns' = Append(conns, [path |-> p, st |-> "open", relay |-> Len(relays) + 1])
           ELSE /\ conns' = Append(conns, [path |-> p, st |-> "closed", relay |-> 0])
                /\ UNCHANGED <<relays, tables>>
    /\ UNCHANGED <<workflows, raised>>

\* the session of connection c: its Relay, and the dicts the Relay works on
HasRelay(c) == c \in DOMAIN conns /\ conns[c].relay # 0
RelayOf(c) == relays[conns[c].relay]
TableOf(c) == tables[RelayOf(c).tab]

\* a handler of the session on connection c starts say_and_wait with request id id: the
\* waiter and the Correlation Table entry go into the dicts of its Relay
RelayCall(c, id) ==
    /\ HasRelay(c)
    /\ conns[c].st = "open"
    /\ LET T == TableOf(c)
           n == Len(T.futures)
       IN  /\ n < 2 * MaxReqs
           /\ id \notin DOMAIN T.id_futures
           /\ tables' = [tables EXCEPT ![RelayOf(c).tab] =
                [T EXCEPT !.futures = T.futures \o <<NewFuture("event"), NewFuture("id")>>,
                          !.event_futures = Append(T.event_futures,
                                [uid |-> id, criteria |-> Criteria("say_and_wait", id),
                                 timestamp |-> now, future |-> n + 1]),
                          !.id_futures = Register(T.id_futures, id, n + 2)]]
    /\ UNCHANGED <<workflows, raised, conns, relays>>

\* one turn of the read loop of the Relay of connection c on message m; an exception in
\* the loop ends _handle, and the connection with it
RelayRecv(c, m) ==
    /\ HasRelay(c)
    /\ conns[c].st = "open"
    /\ LET T == TableOf(c)
           r == handle_on(T.id_futures, T.event_futures, T.futures, Len(T.tasks), now, m,
                          DispatchOn(RegistryOf(RelayOf(c).workflow), m))
       IN  /\ Len(T.tasks) + Len(r.spawn) <= MaxTasks
           /\ tables' = [tables EXCEPT ![RelayOf(c).tab] =
                [id_futures |-> r.id_futures, event_futures |-> r.event_futures,
                 futures |-> r.futures, tasks |-> T.tasks \o r.spawn]]
           /\ conns' = [conns EXCEPT ![c].st = IF r.loop = "running" THEN "open" ELSE "closed"]
    /\ UNCHANGED <<workflows, raised, relays>>

\* the transport of connection c closes
ConnClose(c) ==
    /\ c \in DOMAIN conns
    /\ conns[c].st = "open"
    /\ conns' = [conns EXCEPT ![c].st = "closed"]
    /\ UNCHANGED <<workflows, raised, relays, tables>>

ServerInit ==
    /\ type_handlers = EmptyRegistry
    /\ resolved = None
    /\ event = NoMsg
    /\ nregs = 0
    /\ last_e = NoMsg
    /\ loop = "closed"
    /\ id_futures = [k \in {} |-> 0]
    /\ event_futures = << >>
    /\ futures = << >>
    /\ tasks = << >>
    /\ log = << >>
    /\ uuids = 0
    /\ now = 0
    /\ nticks = 0
    /\ NoServer

ServerNext ==
    \/ \E w \in WorkflowNames, p \in Paths : register(w, p) /\ UNCHANGED <<registryVars, sessionVars>>
    \/ \E p \in Paths : accept(p) /\ UNCHANGED <<registryVars, sessionVars>>
    \/ \E c \in DOMAIN conns, id \in ReqIds : RelayCall(c, id) /\ UNCHANGED <<registryVars, sessionVars>>
    \/ \E c \in DOMAIN conns, m \in ServerInbound : RelayRecv(c, m) /\ UNCHANGED <<registryVars, sessionVars>>
    \/ \E c \in DOMAIN conns : ConnClose(c) /\ UNCHANGED <<registryVars, sessionVars>>

ServerSpec == ServerInit /\ [][ServerNext]_vars

(* The registry alone: a Workflow is built by its decorators and asked for  *)
(* handlers.                                                                *)

RegistryInit ==
    /\ type_handlers = EmptyRegistry
    /\ resolved = None
    /\ event = NoMsg
    /\ nregs = 0
    /\ last_e = NoMsg
    /\ loop = "closed"
    /\ id_futures = [k \in {} |-> 0]
    /\ event_futures = << >>
    /\ futures = << >>
    /\ tasks = << >>
    /\ log = << >>
    /\ uuids = 0
    /\ now = 0
    /\ nticks = 0
    /\ NoServer

RegistryNext ==
    \/ \E f \in Funcs, b \in Buttons \cup {"*"}, t \in Taps \cup {"*"} :
          on_button(f, b, t) /\ UNCHANGED <<sessionVars, serverVars>>
    \/ \E f \in Funcs, n \in Names \cup {"*"}, e \in Events \cup {"*"} :
          on_notification(f, n, e) /\ UNCHANGED <<sessionVars, serverVars>>
    \/ \E f \in Funcs : on_timer(f) /\ UNCHANGED <<sessionVars, serverVars>>
    \/ \E f \in Funcs : on_start(f) /\ UNCHANGED <<sessionVars, serverVars>>
    \/ \E e \in RegistryEvents : GetHandler(e) /\ UNCHANGED <<sessionVars, serverVars>>

RegistrySpec == RegistryInit /\ [][RegistryNext]_vars

-----------------------------------------------------------------------------
(* Claims on the handler registry (RegistrySpec).                           *)

\* the two dimensions get_handler reads from a button or notification event
Dims(ev) ==
    IF ev["_type"] = BUTTON THEN <<ev["button"], ev["taps"]>> ELSE <<ev["name"], ev["event"]>>

\* the four keys an event with dimensions (d1, d2) can resolve to, most specific first,
\* the first dimension before the second
Candidates(ev) ==
    LET t == ev["_type"]
        d == Dims(ev)
    IN  <<<<t, d[1], d[2]>>, <<t, d[1], "*">>, <<t, "*", d[2]>>, <<t, "*", "*">>>>

TwoDimensional(ev) == "_type" \in DOMAIN ev /\ ev["_type"] \in {BUTTON, NOTIFICATION}

\* C1: for a button or notification event with dimensions (d1,d2), get_handler returns the
\* handler of the first registered key among (tag,d1,d2), (tag,d1,'*'), (tag,'*',d2),
\* (tag,'*','*'), and none when none of the four is registered.
C1_Resolution ==
    TwoDimensional(event) =>
        LET c == Candidates(event)
            reg == {i \in 1..4 : c[i] \in DOMAIN type_handlers}
        IN  IF reg = {} THEN resolved = None
            ELSE \E i \in reg : /\ \A j \in reg : i <= j
                                /\ resolved = type_handlers[c[i]]

\* a first-dimension match and a second-dimension match compete, with different handlers,
\* and the first-dimension one was returned
C1_Witness ==
    /\ TwoDimensional(event)
    /\ LET c == Candidates(event)
       IN  /\ c[1] \notin DOMAIN type_handlers
           /\ c[2] \in DOMAIN type_handlers
           /\ c[3] \in DOMAIN type_handlers
           /\ type_handlers[c[2]] # type_handlers[c[3]]
           /\ resolved = type_handlers[c[2]]

-----------------------------------------------------------------------------
(* Claims on request/response correlation and on handler executions (Spec). *)

\* the positions of the log entries of one kind for one id
At(ev, id) == {i \in DOMAIN log : log[i].ev = ev /\ log[i].id = id}

\* the response a task's _send_receive is waiting for, or got
Slot(t) == futures[tasks[t].f]

Called(t) == tasks[t].f # 0

IsErrorResponse(rsp) == "_type" \in DOMAIN rsp /\ rsp["_type"] = ERROR_RESPONSE
IsPlainResponse(rsp) == "_type" \in DOMAIN rsp /\ rsp["_type"] # ERROR_RESPONSE

\* C2: with several _send_receive calls pending at once, whatever the order of the
\* responses, the response a call gets - and returns - carries the call's own request id.
C2_OwnResponse ==
    \A t \in DOMAIN tasks :
        /\ (Called(t) /\ Slot(t).st = "done") => Slot(t).res["_id"] = tasks[t].id
        /\ tasks[t].sr.kind = "returned" => tasks[t].sr.val["_id"] = tasks[t].id

\* two calls were pending together, the responses came in the reverse order of the
\* requests, and both calls have returned
C2_Witness ==
    \E t1, t2 \in DOMAIN tasks :
        /\ t1 # t2
        /\ tasks[t1].sr.kind = "returned"
        /\ tasks[t2].sr.kind = "returned"
        /\ \E i \in At("send", tasks[t1].id), j \in At("send", tasks[t2].id),
              k \in At("recv", tasks[t2].id), l \in At("recv", tasks[t1].id) :
                i < j /\ j < k /\ k < l

\* C3: while a handler is suspended in await fut, the running read loop still reads a
\* later event and spawns its handler, a spawned handler's request can be transmitted, and
\* the suspended handler resumes once its response has been delivered.
C3_NoHeadOfLineBlocking ==
    \A t \in DOMAIN tasks :
        (tasks[t].pc = "await" /\ loop = "running") =>
            /\ Len(tasks) < MaxTasks =>
                   ENABLED (Recv(ButtonEvent("action", "single")) /\ Len(tasks') = Len(tasks) + 1)
            /\ \A u \in DOMAIN tasks : tasks[u].pc = "send" => ENABLED Transmit(u)
            /\ ENABLED Recv(Response(tasks[t].id))
            /\ Slot(t).st = "done" => ENABLED Resume(t)

\* the first handler sent its request, then the second handler was spawned and sent its
\* own, and only then did the first handler's response arrive; the first handler resumed
C3_Witness ==
    \E t1, t2 \in DOMAIN tasks :
        /\ tasks[t1].sr.kind = "returned"
        /\ \E i \in At("send", tasks[t1].id), j \in At("spawn", ToString(t2)),
              k \in At("send", tasks[t2].id), l \in At("recv", tasks[t1].id) :
                i < j /\ j < k /\ k < l

C5_ErrorResponseRaises ==
    \A t \in DOMAIN tasks :
        (Called(t) /\ Slot(t).st = "done" /\ IsErrorResponse(Slot(t).res)) =>
            /\ tasks[t].id \notin DOMAIN id_futures
            /\ tasks[t].sr.kind # "returned"
            /\ tasks[t].pc # "await" =>
                   /\ tasks[t].sr = Raised(Exc("WorkflowException", Slot(t).res["error"]))
                   /\ tasks[t].pc = "failed"
                   /\ tasks[t].exc = Exc("WorkflowException", Slot(t).res["error"])

\* a call got an error response and has raised its message
C5_Witness ==
    \E t \in DOMAIN tasks :
        /\ Called(t)
        /\ Slot(t).st = "done"
        /\ Slot(t).res = ErrorResponse(tasks[t].id)
        /\ tasks[t].sr = Raised(Exc("WorkflowException", "failed"))
        /\ tasks[t].id \notin DOMAIN id_futures

\* C6: an exception that leaves a handler is caught by _wrapper: the step in which a
\* handler execution fails changes neither the read loop's state nor any other handler
\* execution, and a running loop still reads the next message and spawns its handler.
C6_FailureContained ==
    /\ [][\A t \in DOMAIN tasks :
            (tasks[t].pc # "failed" /\ tasks'[t].pc = "failed") =>
                /\ loop' = loop
                /\ \A u \in DOMAIN tasks \ {t} : tasks'[u] = tasks[u]]_vars
    /\ []((loop = "running" /\ Len(tasks) < MaxTasks /\ \E t \in DOMAIN tasks : tasks[t].pc = "failed") =>
              ENABLED (Recv(ButtonEvent("action", "single")) /\ Len(tasks') = Len(tasks) + 1))

\* a handler raised; after that the loop spawned the next handler, whose request was
\* sent and answered
C6_Witness ==
    /\ loop = "running"
    /\ \E t, u \in DOMAIN tasks :
        /\ tasks[t].pc = "failed"
        /\ tasks[t].exc = Exc("Exception", "handler")
        /\ tasks[u].sr.kind = "returned"
        /\ \E i \in At("raise", ToString(t)), j \in At("spawn", ToString(u)),
              k \in At("recv", tasks[u].id) : i < j /\ j < k

UnknownCorrelationId(m) == "_id" \in DOMAIN m /\ m["_id"] \notin DOMAIN id_futures

-----------------------------------------------------------------------------
(* Claims on the waits of the Event Matcher (WaitSpec).                     *)

TimedOut(t) == tasks[t].wt = Raised(Exc("TimeoutError", ""))

\* no registered waiter is older than the age ceiling
NoneStale == \A i \in DOMAIN event_futures : now - event_futures[i].timestamp <= AgeCeiling

\* C8 as claimed: after a waiter's wait has timed out, an event that matches the waiter's
\* criteria does not resume the routine again, and the read loop keeps running (stated for
\* the arrivals that find no waiter past the age ceiling).
C8_LateEventAfterTimeout ==
    [][\A t \in DOMAIN tasks : \A m \in Inbound :
          (/\ TimedOut(t)
           /\ NoneStale
           /\ Recv(m)
           /\ Matches(Criteria(tasks[t].op, tasks[t].id), m)) =>
              /\ tasks'[t] = tasks[t]
              /\ loop' = "running"]_vars

\* C9 as claimed: once a wait on a waiter's slot has timed out, no Event Matcher entry holds
\* that slot.
C9_TimedOutEntryRemoved ==
    \A t \in DOMAIN tasks :
        TimedOut(t) => \A i \in DOMAIN event_futures : event_futures[i].future # tasks[t].ef

InAwait(t) == t \in DOMAIN tasks /\ tasks[t].pc = "await"

\* C10 as claimed: while the session runs, a call suspended in _send_receive does not stay
\* suspended forever: it is resolved or it times out.
C10_AwaitEnds ==
    \A t \in 1..MaxTasks : [](InAwait(t) => <>(~InAwait(t) \/ loop = "closed"))

\* C10, amended: _send_receive has no timeout; a call suspended in it stays suspended,
\* whatever the clock shows, until a message with its request id has resolved its slot.
C10_SuspendedUntilResolved ==
    /\ [][\A t \in DOMAIN tasks :
            (tasks[t].pc = "await" /\ tasks'[t].pc # "await") =>
                /\ Slot(t).st = "done"
                /\ Slot(t).res["_id"] = tasks[t].id]_vars
    /\ [](\A t \in DOMAIN tasks : tasks[t].pc = "await" => ~ENABLED Timeout(t))

\* a call is still suspended on its pending slot, in a running session, with the clock
\* past the age ceiling
C10_Witness ==
    /\ loop = "running"
    /\ now > AgeCeiling
    /\ \E t \in DOMAIN tasks :
          tasks[t].pc = "await" /\ Slot(t).st = "pending" /\ tasks[t].id \in SentIds

-----------------------------------------------------------------------------
(* Claims on what ends the read loop (WaitSpec).                            *)

\* C11 as claimed: a running read loop ends only by the transport closing or failing;
\* nothing a message, a timeout or a handler does takes the session out of Running.
C11_OnlyTransportEndsLoop ==
    [][(loop = "running" /\ loop' = "closed") => TransportClose]_vars

-----------------------------------------------------------------------------
(* Claims on the Event Matcher (WaitSpec, EventSpec).                       *)

\* the waiter a task's say_and_wait registered is still in event_futures
Registered(t) == \E i \in DOMAIN event_futures : event_futures[i].future = tasks[t].ef

\* C12: with several waiters registered whose criteria overlap (same _type and type) but
\* differ (in id), a message resolves a waiter only if it matches that waiter's own
\* criteria, and the waiter's result is that message; a message that matches no waiter,
\* none of them past the age ceiling, leaves every waiter registered and unresolved.
C12_OwnCriteriaOnly ==
    [][\A m \in Inbound :
          Recv(m) =>
              /\ \A i \in DOMAIN event_futures :
                    LET w == event_futures[i]
                    IN  futures'[w.future] # futures[w.future] =>
                            /\ Matches(w.criteria, m)
                            /\ futures'[w.future] = [kind |-> "event", st |-> "done", res |-> m]
              /\ (/\ NoneStale
                  /\ \A i \in DOMAIN event_futures : ~Matches(event_futures[i].criteria, m))
                     => /\ event_futures' = event_futures
                        /\ \A i \in DOMAIN event_futures :
                              futures'[event_futures[i].future] = futures[event_futures[i].future]]_vars

\* two waiters were registered; the prompt event of the later one arrived: it resolved the
\* later waiter and left the earlier one registered and pending
C12_Witness ==
    \E t1, t2 \in DOMAIN tasks :
        /\ tasks[t1].ef # 0 /\ tasks[t2].ef # 0
        /\ tasks[t1].ef < tasks[t2].ef
        /\ futures[tasks[t2].ef] =
              [kind |-> "event", st |-> "done", res |-> PromptStopped(tasks[t2].id)]
        /\ ~Registered(t2)
        /\ futures[tasks[t1].ef].st = "pending"
        /\ Registered(t1)
        /\ loop = "running"

\* C13: a waiter's future is resolved only from an entry that is registered and within the
\* age ceiling at the time the event arrives; the clock never goes back and an entry that
\* left event_futures never returns, so a waiter found older than the ceiling is resolved
\* neither by that event nor by any later one, matching or not.
C13_StaleNeverResolved ==
    /\ [][\A f \in DOMAIN futures :
            (futures[f].kind = "event" /\ futures[f].st # "done" /\ futures'[f].st = "done") =>
                \E i \in DOMAIN event_futures :
                    /\ event_futures[i].future = f
                    /\ now - event_futures[i].timestamp <= AgeCeiling]_vars
    /\ [][now' >= now]_vars
    /\ [][\A i \in DOMAIN event_futures' :
            \/ \E j \in DOMAIN event_futures : event_futures[j] = event_futures'[i]
            \/ event_futures'[i].future \notin DOMAIN futures]_vars

\* the prompt event of a say_and_wait arrived when its waiter was past the age ceiling: the
\* waiter is gone from event_futures and its future is still unresolved
C13_Witness ==
    \E t \in DOMAIN tasks :
        /\ tasks[t].ef # 0
        /\ last_e = PromptStopped(tasks[t].id)
        /\ now > AgeCeiling
        /\ ~Registered(t)
        /\ futures[tasks[t].ef].st = "pending"

KnownCorrelationId(m) == "_id" \in DOMAIN m /\ m["_id"] \in DOMAIN id_futures

\* the earliest-registered waiter whose criteria the message meets (0: none)
FirstMatch(m) ==
    LET is == {i \in DOMAIN event_futures : Matches(event_futures[i].criteria, m)}
    IN  IF is = {} THEN 0 ELSE CHOOSE i \in is : \A j \in is : i <= j

\* the arguments _handle takes from the event for the handler of its type
HandlerArgs(m) == [i \in DOMAIN ArgFields(m["_type"]) |-> m[ArgFields(m["_type"])[i]]]

\* C14: an event that resolves no Correlation Table entry, matches a pending waiter (none
\* past the age ceiling) and resolves to a registered handler has both effects in the one
\* turn of the loop: the waiter's future is resolved with the event and its entry removed,
\* and the handler is spawned with the event's fields. The waiter comes first: when the
\* dispatch then fails on a field the event lacks, the waiter has been resolved all the same.
C14_WaiterAndHandler ==
    [][\A m \in EventInbound :
          LET i == FirstMatch(m)
              f == event_futures[i].future
              h == get_handler(type_handlers, m)
              fields == ArgFields(m["_type"])
          IN  (/\ Recv(m)
               /\ ~KnownCorrelationId(m)
               /\ NoneStale
               /\ i # 0
               /\ futures[f].st = "pending"
               /\ h \notin {None, KeyError}) =>
                  /\ futures'[f] = [kind |-> "event", st |-> "done", res |-> m]
                  /\ \A j \in DOMAIN event_futures' : event_futures'[j].future # f
                  /\ Len(event_futures') = Len(event_futures) - 1
                  /\ IF \A k \in DOMAIN fields : fields[k] \in DOMAIN m
                     THEN /\ tasks' = Append(tasks, NewTask(h, HandlerArgs(m)))
                          /\ loop' = "running"
                     ELSE /\ tasks' = tasks
                          /\ loop' = "closed"]_vars

\* the prompt event of a say_and_wait arrived in a session whose workflow has a prompt
\* handler: the waiter is resolved with it and gone, and the prompt handler was spawned
C14_Witness ==
    \E t \in DOMAIN tasks :
        /\ tasks[t].ef # 0
        /\ last_e = PromptStopped(tasks[t].id)
        /\ futures[tasks[t].ef] = [kind |-> "event", st |-> "done", res |-> last_e]
        /\ ~Registered(t)
        /\ tasks[Len(tasks)] = NewTask("prompt_handler", <<"urn:device", "stopped">>)
        /\ log[Len(log)] = LogEntry("spawn", ToString(Len(tasks)), "prompt_handler")
        /\ loop = "running"

-----------------------------------------------------------------------------
(* Claims on the order of correlation and dispatch (EventSpec).             *)

\* C15 as claimed: a message that resolves a pending request and whose type has a
\* registered handler also spawns that handler.
C15_CorrelatedAlsoDispatched ==
    [][\A m \in EventInbound :
          (/\ Recv(m)
           /\ KnownCorrelationId(m)
           /\ get_handler(type_handlers, m) \notin {None, KeyError}) =>
              Len(tasks') = Len(tasks) + 1]_vars

\* C15, amended: handler resolution is attempted only for a message that resolved no
\* Correlation Table entry. A message whose id is in the table resolves that slot, removes
\* the entry and does nothing else: no handler is spawned, whatever is registered for its
\* type, and the Event Matcher is not consulted. A message that resolves no entry and
\* matches no waiter is dispatched to the handler registered for it.
C15_CorrelatedNotDispatched ==
    [][\A m \in EventInbound :
          /\ (Recv(m) /\ KnownCorrelationId(m)) =>
                /\ futures' = [futures EXCEPT ![id_futures[m["_id"]]] =
                                  [kind |-> "id", st |-> "done", res |-> m]]
                /\ id_futures' = Without(id_futures, m["_id"])
                /\ tasks' = tasks
                /\ event_futures' = event_futures
                /\ loop' = "running"
          /\ (/\ Recv(m)
              /\ ~KnownCorrelationId(m)
              /\ FirstMatch(m) = 0
              /\ NoneStale
              /\ get_handler(type_handlers, m) \notin {None, KeyError}
              /\ \A k \in DOMAIN ArgFields(m["_type"]) : ArgFields(m["_type"])[k] \in DOMAIN m) =>
                    /\ tasks' = Append(tasks, NewTask(get_handler(type_handlers, m), HandlerArgs(m)))
                    /\ UNCHANGED <<futures, id_futures, event_futures>>]_vars

\* a button event that carries the id of a pending request arrived: it is the result of
\* that request, and no handler was spawned for it (the only execution is the caller)
C15_Witness ==
    /\ Len(tasks) = 1
    /\ tasks[1].f # 0
    /\ last_e = ButtonWithId(tasks[1].id)
    /\ Slot(1) = [kind |-> "id", st |-> "done", res |-> last_e]
    /\ tasks[1].id \notin DOMAIN id_futures
    /\ log[Len(log)] = LogEntry("recv", tasks[1].id, BUTTON)
    /\ get_handler(type_handlers, last_e) = "handle_action_single_tap"

-----------------------------------------------------------------------------
(* Claims on the waiting operations (FairWaitSpec).                         *)

\* the call of task t has its direct response and its notification
BothArrived(t) ==
    /\ t \in DOMAIN tasks
    /\ tasks[t].pc \in {"await", "wait"}
    /\ tasks[t].ef # 0
    /\ Slot(t).st = "done"
    /\ IsPlainResponse(Slot(t).res)
    /\ futures[tasks[t].ef].st = "done"

\* C16: say_and_wait registers its waiter before the request is transmitted: from the
\* moment the request is about to be sent the waiter is in event_futures, until an event
\* resolves it (or the session has ended). So the prompt event for the request, arriving
\* at any point after the transmission, before or after the direct response, resolves the
\* waiter (while it is pending and within the age ceiling); and once the response and the
\* notification have both arrived the call completes.
C16_WaiterBeforeTransmit ==
    /\ [](\A t \in DOMAIN tasks :
            (tasks[t].op = "say_and_wait" /\ tasks[t].pc \in {"send", "await"}) =>
                /\ tasks[t].ef # 0
                /\ Registered(t) \/ futures[tasks[t].ef].st = "done" \/ loop = "closed")
    /\ [][\A t \in DOMAIN tasks :
            (/\ tasks[t].pc \in {"await", "wait"}
             /\ tasks[t].ef # 0
             /\ Registered(t)
             /\ NoneStale
             /\ futures[tasks[t].ef].st = "pending"
             /\ Recv(PromptStopped(tasks[t].id))) =>
                futures'[tasks[t].ef] =
                    [kind |-> "event", st |-> "done", res |-> PromptStopped(tasks[t].id)]]_vars
    /\ \A t \in 1..MaxTasks :
          [](BothArrived(t) => <>(t \in DOMAIN tasks /\ tasks[t].wt.kind = "returned"))

\* the prompt event of a say_and_wait arrived after the transmission and before the direct
\* response: the waiter is resolved while the call still awaits its response
C16_Witness ==
    \E t \in DOMAIN tasks :
        /\ tasks[t].pc = "await"
        /\ tasks[t].id \in SentIds
        /\ Slot(t).st = "pending"
        /\ futures[tasks[t].ef] =
              [kind |-> "event", st |-> "done", res |-> PromptStopped(tasks[t].id)]

-----------------------------------------------------------------------------
(* Claims on the dispatch of one message (Spec).                            *)

\* C17: a turn of the read loop spawns at most one handler execution and touches no
\* existing one; the execution spawned runs the handler get_handler resolves for the
\* message. With handlers registered for (button,'action','single') and (button,'*','*'),
\* a button event with button 'action' and taps 'single' that resolves no pending request
\* spawns exactly one execution, of the first handler.
C17_OneHandlerPerMessage ==
    [][\A m \in Inbound :
          Recv(m) =>
              /\ Len(tasks') <= Len(tasks) + 1
              /\ \A t \in DOMAIN tasks : tasks'[t] = tasks[t]
              /\ Len(tasks') = Len(tasks) + 1 =>
                    tasks'[Len(tasks')].h = get_handler(type_handlers, m)
              /\ (/\ Get(type_handlers, <<BUTTON, "action", "single">>) = "handle_action_single_tap"
                  /\ Get(type_handlers, <<BUTTON, "*", "*">>) = "handle_button"
                  /\ Without(m, "_id") = ButtonEvent("action", "single")
                  /\ ~KnownCorrelationId(m)) =>
                        /\ Len(tasks') = Len(tasks) + 1
                        /\ tasks'[Len(tasks')].h = "handle_action_single_tap"]_vars

\* the button event (action, single) was the last message read: one execution exists, of
\* handle_action_single_tap, and none of the wildcard handler
C17_Witness ==
    /\ last_e = ButtonEvent("action", "single")
    /\ Get(type_handlers, <<BUTTON, "*", "*">>) = "handle_button"
    /\ Len(tasks) = 1
    /\ tasks[1].h = "handle_action_single_tap"
    /\ tasks[1].args = <<"action", "single", "urn:device">>
    /\ log = <<LogEntry("spawn", "1", "handle_action_single_tap")>>

-----------------------------------------------------------------------------
(* Claims on the Server (ServerSpec).                                       *)

\* C18: Server.register for a path that is bound raises ServerException and leaves
\* self.workflows as it is; for an unbound path it binds the path to the workflow. No step
\* ever changes or removes a binding: a path stays bound to the first workflow registered
\* for it.
C18_RegisterOncePerPath ==
    /\ [][\A w \in WorkflowNames, p \in Paths :
            register(w, p) =>
                IF p \in DOMAIN workflows
                THEN /\ raised' = Exc("ServerException", p)
                     /\ workflows' = workflows
                ELSE /\ raised' = NoMsg
                     /\ DOMAIN workflows' = DOMAIN workflows \cup {p}
                     /\ workflows'[p] = w]_vars
    /\ [][\A p \in DOMAIN workflows :
            p \in DOMAIN workflows' /\ workflows'[p] = workflows[p]]_vars

\* both workflows were offered for both paths: the last register, for a bound path, raised,
\* and each path is bound to a workflow
C18_Witness ==
    /\ raised = Exc("ServerException", "/a")
    /\ DOMAIN workflows = Paths
    /\ workflows["/a"] = "all_features"
    /\ workflows["/b"] = "hello_world"

\* C19: Server._handler on a path without a workflow closes the connection and constructs
\* no Relay; on a registered path it constructs one new Relay, bound to the workflow of
\* that path and with empty tables, and the connection is open to be read by its _handle.
C19_AcceptByPath ==
    [][\A p \in Paths :
          accept(p) =>
              IF p \notin DOMAIN workflows
              THEN /\ conns' = Append(conns, [path |-> p, st |-> "closed", relay |-> 0])
                   /\ relays' = relays
                   /\ tables' = tables
              ELSE /\ Len(relays') = Len(relays) + 1
                   /\ \A r \in DOMAIN relays : relays'[r] = relays[r]
                   /\ relays'[Len(relays')].workflow = workflows[p]
                   /\ conns' = Append(conns, [path |-> p, st |-> "open", relay |-> Len(relays')])
                   /\ tables'[relays'[Len(relays')].tab] = NewTables]_vars

\* one connection came in on a path without a workflow and was closed without a Relay,
\* another on a registered path and has a Relay of that path's workflow
C19_Witness ==
    \E c1, c2 \in DOMAIN conns :
        /\ conns[c1].path \notin DOMAIN workflows
        /\ conns[c1] = [path |-> conns[c1].path, st |-> "closed", relay |-> 0]
        /\ conns[c2].path \in DOMAIN workflows
        /\ conns[c2].st = "open"
        /\ HasRelay(c2)
        /\ RelayOf(c2).workflow = workflows[conns[c2].path]
        /\ Len(relays) = 1

\* C20: no two Relay objects hold the same tables, and a message read on one connection,
\* like a call made by a handler of one session, changes nothing in the tables of the
\* Relay of any other connection, whatever ids and criteria those tables hold.
C20_SessionsIsolated ==
    /\ [](\A c1, c2 \in DOMAIN conns :
            (c1 # c2 /\ HasRelay(c1) /\ HasRelay(c2)) => RelayOf(c1).tab # RelayOf(c2).tab)
    /\ [][\A c \in DOMAIN conns :
            ((\E m \in ServerInbound : RelayRecv(c, m)) \/ (\E id \in ReqIds : RelayCall(c, id))) =>
                \A c2 \in DOMAIN conns :
                    (c2 # c /\ HasRelay(c2)) => TableOf(c2)' = TableOf(c2)]_vars

\* two sessions on the same path, each with a request of the same id and a waiter of the
\* same criteria: the response and the prompt event were read on one connection and
\* resolved its Relay's slots; the other Relay's entries are registered and pending
C20_Witness ==
    \E c1, c2 \in DOMAIN conns :
        /\ c1 # c2
        /\ conns[c1].path = conns[c2].path
        /\ HasRelay(c1) /\ HasRelay(c2)
        /\ conns[c1].st = "open" /\ conns[c2].st = "open"
        /\ TableOf(c1).id_futures = [k \in {} |-> 0]
        /\ TableOf(c1).event_futures = << >>
        /\ TableOf(c1).futures =
              <<[kind |-> "event", st |-> "done", res |-> PromptStopped("a")],
                [kind |-> "id", st |-> "done", res |-> Response("a")]>>
        /\ TableOf(c2).id_futures = ("a" :> 2)
        /\ Len(TableOf(c2).event_futures) = 1
        /\ TableOf(c2).event_futures[1].criteria = Criteria("say_and_wait", "a")
        /\ TableOf(c2).futures = <<NewFuture("event"), NewFuture("id")>>

-----------------------------------------------------------------------------
(* Claims on the life of a Correlation Table entry (Spec).                  *)

\* C21: a Correlation Table entry leaves id_futures only in the turn of the read loop that
\* reads a message with its id, and in that turn its future is resolved with that message;
\* a future once resolved never changes, so a slot records one resolution at most; each id
\* is correlated once (one recv in the log, after which the id is not in the table); and a
\* later message with the same id finds no entry and resolves no Correlation Table slot.
C21_RemovedOnceResolvedOnce ==
    /\ [][\A id \in DOMAIN id_futures :
            id \notin DOMAIN id_futures' =>
                \E m \in Inbound :
                    /\ Recv(m)
                    /\ "_id" \in DOMAIN m /\ m["_id"] = id
                    /\ futures[id_futures[id]].st = "pending"
                    /\ futures'[id_futures[id]] = [kind |-> "id", st |-> "done", res |-> m]]_vars
    /\ [][\A f \in DOMAIN futures :
            futures[f].st = "done" => futures'[f] = futures[f]]_vars
    /\ [][\A f \in DOMAIN futures :
            (futures[f].kind = "id" /\ futures'[f] # futures[f]) =>
                \E id \in DOMAIN id_futures : id_futures[id] = f /\ id \notin DOMAIN id_futures']_vars
    /\ [](\A id \in SentIds :
            /\ Cardinality(At("recv", id)) <= 1
            /\ At("recv", id) # {} => id \notin DOMAIN id_futures)
    /\ [][\A m \in Inbound :
            (Recv(m) /\ "_id" \in DOMAIN m /\ At("recv", m["_id"]) # {}) =>
                /\ id_futures' = id_futures
                /\ \A f \in DOMAIN futures : futures[f].kind = "id" => futures'[f] = futures[f]]_vars

\* a request got an error response, and then a plain response with the same id was read:
\* there is one recv for the id, the slot still holds the first message, the entry is gone
C21_Witness ==
    \E t \in DOMAIN tasks :
        /\ Called(t)
        /\ last_e = Response(tasks[t].id)
        /\ Slot(t) = [kind |-> "id", st |-> "done", res |-> ErrorResponse(tasks[t].id)]
        /\ Cardinality(At("recv", tasks[t].id)) = 1
        /\ tasks[t].id \notin DOMAIN id_futures
        /\ loop = "running"

-----------------------------------------------------------------------------
(* Claims on the send primitive and on the session after terminate          *)
(* (TermSpec).                                                              *)

\* C22: terminate, through _send, stamps an id on its request that no earlier request of
\* the session carries, and transmits it; neither the call nor the transmission adds or
\* removes a Correlation Table entry, an Event Matcher waiter or a future, and after the
\* transmission the handler runs on without waiting for a response.
C22_SendLeavesTablesAlone ==
    [][\A t \in DOMAIN tasks :
        /\ terminate(t) =>
            /\ tasks'[t].id \notin SentIds \cup DOMAIN id_futures
            /\ \A u \in DOMAIN tasks \ {t} : tasks[u].pc \in {"send", "await"} => tasks[u].id # tasks'[t].id
            /\ UNCHANGED <<id_futures, event_futures, futures, loop>>
        /\ (Transmit(t) /\ tasks[t].op = "terminate" /\ loop = "running") =>
            /\ log' = Append(log, LogEntry("send", tasks[t].id, "wf_api_terminate_request"))
            /\ UNCHANGED <<id_futures, event_futures, futures, loop>>
            /\ tasks'[t].pc = "run"]_vars

\* a handler has transmitted terminate while another request of the session is pending:
\* the table holds that request's entry only, and the handler is running again
C22_Witness ==
    \E t \in DOMAIN tasks :
        /\ tasks[t].op = "terminate" /\ tasks[t].pc = "run"
        /\ At("send", tasks[t].id) # {}
        /\ log[Len(log)] = LogEntry("send", tasks[t].id, "wf_api_terminate_request")
        /\ tasks[t].id \notin DOMAIN id_futures
        /\ \E u \in DOMAIN tasks : u # t /\ Called(u) /\ DOMAIN id_futures = {tasks[u].id}
        /\ Cardinality({f \in DOMAIN futures : futures[f].st = "pending"}) = 1

-----------------------------------------------------------------------------
(* Claims on the messages nothing is registered for and on the end of the   *)
(* read loop (WaitSpec).                                                    *)

\* C23 as claimed: an event without a correlation id that resolves to no handler and meets
\* the criteria of no registered waiter resolves no slot, spawns no handler, leaves the
\* Correlation Table and the Event Matcher as they are, and the loop keeps running.
C23_UnhandledEventDropped ==
    [][\A m \in Inbound :
          (/\ Recv(m)
           /\ "_id" \notin DOMAIN m
           /\ get_handler(type_handlers, m) = None
           /\ FirstMatch(m) = 0) =>
              /\ futures' = futures
              /\ tasks' = tasks
              /\ id_futures' = id_futures
              /\ event_futures' = event_futures
              /\ loop' = "running"]_vars

\* the same with no waiter past the age ceiling registered: this much holds
C23_DroppedWhenNoneStale ==
    [][\A m \in Inbound :
          (/\ Recv(m)
           /\ "_id" \notin DOMAIN m
           /\ get_handler(type_handlers, m) = None
           /\ FirstMatch(m) = 0
           /\ NoneStale) =>
              /\ futures' = futures
              /\ tasks' = tasks
              /\ id_futures' = id_futures
              /\ event_futures' = event_futures
              /\ loop' = "running"]_vars

\* C24: a transport close ends the read loop and nothing else happens: no exception is
\* logged, no execution fails, no slot or table changes. An exception raised while a message
\* is processed (here the purge of a waiter past the age ceiling) ends the loop as well.
\* Once the loop has ended it stays ended: no message is read, no execution is spawned, no
\* future is resolved, and no entry leaves the tables.
C24_ClosedForGood ==
    /\ [][TransportClose =>
            /\ loop' = "closed"
            /\ UNCHANGED <<tasks, log, futures, id_futures, event_futures>>]_vars
    /\ [][\A m \in Inbound :
            (Recv(m) /\ ~KnownCorrelationId(m) /\ ~NoneStale) => loop' = "closed"]_vars
    /\ [][loop = "closed" =>
            /\ loop' = "closed"
            /\ Len(tasks') = Len(tasks)
            /\ \A i \in DOMAIN log' : log'[i].ev \in {"recv", "spawn"} => i \in DOMAIN log
            /\ \A f \in DOMAIN futures' :
                    futures'[f].st = "done" => f \in DOMAIN futures /\ futures'[f] = futures[f]
            /\ \A id \in DOMAIN id_futures :
                    id \in DOMAIN id_futures' /\ id_futures'[id] = id_futures[id]
            /\ SubSeq(event_futures', 1, Len(event_futures)) = event_futures]_vars
    /\ [](loop = "closed" => \A m \in Inbound : ~ENABLED Recv(m))

\* the loop was ended by an exception, not by the transport: a waiter past the age ceiling
\* was purged under the iteration, while the request of its routine, transmitted, is still
\* waiting for a response that will not be read
C24_Witness ==
    \E t \in DOMAIN tasks :
        /\ loop = "closed"
        /\ tasks[t].pc = "await" /\ Slot(t).st = "pending"
        /\ tasks[t].id \in SentIds /\ tasks[t].id \in DOMAIN id_futures
        /\ tasks[t].ef # 0 /\ ~Registered(t)
        /\ futures[tasks[t].ef].st = "pending"

\* C25: the end of the read loop does nothing to the routines suspended on a slot: the
\* transport close leaves every future and every table entry as it is, and once the loop has
\* ended a routine suspended in _send_receive stays suspended with its slot pending and its
\* entry registered, and a waiter's future never becomes done (its routine's own wait_for
\* can still cancel it when its timeout expires) while its entry stays registered as it was.
C25_SuspendedAbandoned ==
    /\ [][TransportClose => UNCHANGED <<futures, id_futures, event_futures, tasks>>]_vars
    /\ [][loop = "closed" =>
            \A t \in DOMAIN tasks :
                /\ (tasks[t].pc = "await" /\ Slot(t).st = "pending") =>
                        /\ tasks'[t] = tasks[t]
                        /\ futures'[tasks[t].f] = futures[tasks[t].f]
                        /\ tasks[t].id \in DOMAIN id_futures'
                        /\ id_futures'[tasks[t].id] = tasks[t].f
                /\ (tasks[t].ef # 0 /\ futures[tasks[t].ef].st = "pending") =>
                        /\ futures'[tasks[t].ef].st \in {"pending", "cancelled"}
                        /\ futures'[tasks[t].ef].st = "cancelled" => Timeout(t)
                        /\ \A i \in DOMAIN event_futures :
                              event_futures[i].future = tasks[t].ef =>
                                  i \in DOMAIN event_futures' /\ event_futures'[i] = event_futures[i]]_vars

\* the loop has ended and the wait timeout has gone by: a routine is still suspended in
\* _send_receive on its transmitted request, its slot pending, its entry and its waiter
\* registered
C25_Witness ==
    \E t \in DOMAIN tasks :
        /\ loop = "closed" /\ now >= WaitTimeout
        /\ tasks[t].pc = "await" /\ Slot(t).st = "pending"
        /\ tasks[t].id \in SentIds
        /\ tasks[t].id \in DOMAIN id_futures /\ id_futures[tasks[t].id] = tasks[t].f
        /\ Registered(t) /\ futures[tasks[t].ef].st = "pending"

-----------------------------------------------------------------------------
(* Claims on the session after terminate and on the order of a handler's    *)
(* requests (TermSpec, Spec).                                               *)

\* the events of the three kinds the test sends after terminate, with the handler the
\* workflow of tests/all_features.py registers for each
AfterTerminateEvents ==
    {<<ButtonEvent("action", "single"), "handle_action_single_tap">>,
     <<ButtonEvent("channel", "double"), "handle_double_tap">>,
     <<NotificationEvent("n", "e1"), "handle_notification">>,
     <<TimerEvent, "handle_timer">>}

\* C26: calling and transmitting terminate leaves the read loop running. While it runs
\* after the terminate request was sent, a button, notification or timer event can be read
\* and spawns the handler registered for it with the event's fields; a request such a
\* handler has issued can be transmitted; the response to a transmitted request can be read
\* and resolves its slot; and the handler can resume with the response.
C26_RunsAfterTerminate ==
    /\ [][\A t \in DOMAIN tasks :
            (terminate(t) \/ (Transmit(t) /\ tasks[t].op = "terminate")) => loop' = loop]_vars
    /\ []((Terminated /\ loop = "running") =>
            /\ Len(tasks) < MaxTasks =>
                 \A p \in AfterTerminateEvents :
                    ENABLED (/\ Recv(p[1])
                             /\ tasks' = Append(tasks, NewTask(p[2], HandlerArgs(p[1])))
                             /\ loop' = "running")
            /\ \A t \in DOMAIN tasks :
                 /\ (tasks[t].pc = "send" /\ tasks[t].op = "say") =>
                        ENABLED (/\ Transmit(t)
                                 /\ tasks'[t].pc = "await"
                                 /\ log' = Append(log, LogEntry("send", tasks[t].id, "wf_api_say_request")))
                 /\ (tasks[t].pc = "await" /\ Slot(t).st = "pending" /\ tasks[t].id \in SentIds) =>
                        ENABLED (/\ Recv(Response(tasks[t].id))
                                 /\ futures'[tasks[t].f].st = "done"
                                 /\ futures'[tasks[t].f].res = Response(tasks[t].id))
                 /\ (tasks[t].pc = "await" /\ Slot(t).st = "done" /\ IsPlainResponse(Slot(t).res)) =>
                        ENABLED (/\ Resume(t)
                                 /\ tasks'[t].pc = "run"
                                 /\ tasks'[t].sr = Returned(Slot(t).res)))

\* after the terminate request was transmitted a button event spawned a handler, whose say
\* request was transmitted and answered, and the handler has resumed with the response
C26_Witness ==
    \E t \in DOMAIN tasks :
        /\ loop = "running"
        /\ tasks[t].op = "say" /\ tasks[t].pc = "run"
        /\ tasks[t].sr = Returned(Response(tasks[t].id))
        /\ \E i, j, k, l \in DOMAIN log :
            /\ i < j /\ j < k /\ k < l
            /\ log[i].ev = "send" /\ log[i].what = "wf_api_terminate_request"
            /\ log[j] = LogEntry("spawn", ToString(t), tasks[t].h)
            /\ log[k] = LogEntry("send", tasks[t].id, "wf_api_say_request")
            /\ log[l].ev = "recv" /\ log[l].id = tasks[t].id

\* C27: a handler issues a request through _send_receive only when its previous request, if
\* any, has been transmitted, the response to it has been read into its slot, and the
\* handler has resumed with that response; a request is transmitted only after it was
\* issued, and a response is read only after its request was transmitted. So the requests
\* of one handler reach the log in program order, each after the previous one's response.
C27_ProgramOrder ==
    /\ [][\A t \in DOMAIN tasks :
            (Called(t) /\ tasks'[t].f # tasks[t].f) =>
                /\ At("send", tasks[t].id) # {}
                /\ At("recv", tasks[t].id) # {}
                /\ Slot(t).st = "done"
                /\ tasks[t].sr = Returned(Slot(t).res)
                /\ At("send", tasks'[t].id) = {}]_vars
    /\ [](\A t \in DOMAIN tasks :
            Called(t) =>
                /\ tasks[t].pc = "send" => At("send", tasks[t].id) = {}
                /\ tasks[t].pc = "await" => At("send", tasks[t].id) # {}
                /\ \A i \in At("recv", tasks[t].id) : \E j \in At("send", tasks[t].id) : j < i)

\* one handler has issued two requests: the log shows the first one sent and answered before
\* the second one is sent
C27_Witness ==
    /\ Len(tasks) = 1
    /\ \E a, b \in SentIds :
        /\ a # b
        /\ log = <<LogEntry("spawn", "1", tasks[1].h),
                   LogEntry("send", a, "wf_api_say_request"),
                   LogEntry("recv", a, "wf_api_say_response"),
                   LogEntry("send", b, "wf_api_say_request")>>
        /\ tasks[1].id = b /\ tasks[1].pc = "await"

-----------------------------------------------------------------------------
(* Claims on the Event Matcher (MatchSpec, WaitSpec).                       *)

\* C28: _pop_event_match finds the waiter for an event exactly when every key of the
\* waiter's criteria is a key of the event with the same value: a criteria key the event
\* lacks makes it a non-match whatever else agrees, and the event's other fields play no
\* part (the outcome is that for the event cut down to the criteria's keys).
C28_MatchIffCriteriaMet ==
    [][PopEventMatch =>
        LET c == event_futures[1].criteria
            cut == [k \in DOMAIN event \cap DOMAIN c |-> event[k]]
        IN  /\ (resolved' = "match") <=> (\A k \in DOMAIN c : k \in DOMAIN event /\ event[k] = c[k])
            /\ (resolved' = "none") <=> (\E k \in DOMAIN c : k \notin DOMAIN event \/ event[k] # c[k])
            /\ (\E k \in DOMAIN c : k \notin DOMAIN event) => resolved' = "none"
            /\ resolved' = pop_event_match(event_futures, cut, now).kind
            /\ resolved' = "match" =>
                  event_futures' = << >> /\ futures'[1] = [kind |-> "event", st |-> "done", res |-> event]
            /\ resolved' = "none" => event_futures' = event_futures /\ futures' = futures]_vars

\* an event that agrees with the criteria on every key it has, and has fields the criteria do
\* not name, but lacks one criteria key: no match, the waiter stays registered
C28_Witness ==
    /\ resolved = "none"
    /\ Len(event_futures) = 1
    /\ LET c == event_futures[1].criteria
       IN  /\ \E k \in DOMAIN c : k \notin DOMAIN event
           /\ \E k \in DOMAIN c : k \in DOMAIN event
           /\ \A k \in DOMAIN c \cap DOMAIN event : event[k] = c[k]
           /\ "source_uri" \in DOMAIN event
    /\ futures[1].st = "pending"

\* C29 as claimed: for a message that resolves no Correlation Table entry, with every
\* registered waiter's future still pending, _pop_event_match resolves and removes the
\* earliest waiter within the age ceiling whose criteria the message meets, whether or not
\* waiters past the ceiling are registered too; when there is none it removes every waiter
\* past the ceiling, resolves nothing, and the read loop goes on.
C29_MatchOrPurge ==
    [][\A m \in Inbound :
          (/\ Recv(m)
           /\ ~KnownCorrelationId(m)
           /\ \A i \in DOMAIN event_futures : futures[event_futures[i].future].st = "pending") =>
              LET hits == {i \in DOMAIN event_futures :
                              /\ now - event_futures[i].timestamp <= AgeCeiling
                              /\ \A k \in DOMAIN event_futures[i].criteria :
                                    k \in DOMAIN m /\ m[k] = event_futures[i].criteria[k]}
                  first == CHOOSE i \in hits : \A j \in hits : i <= j
              IN  IF hits # {}
                  THEN /\ futures'[event_futures[first].future] =
                              [kind |-> "event", st |-> "done", res |-> m]
                       /\ \A j \in DOMAIN event_futures' :
                              event_futures'[j].future # event_futures[first].future
                  ELSE /\ event_futures' =
                              SelectSeq(event_futures, LAMBDA w : now - w.timestamp <= AgeCeiling)
                       /\ futures' = futures
                       /\ loop' = "running"]_vars

\* the same for the arrivals that find no waiter past the age ceiling: this much holds
C29_MatchWhenNoneStale ==
    [][\A m \in Inbound :
          (/\ Recv(m)
           /\ ~KnownCorrelationId(m)
           /\ NoneStale
           /\ \A i \in DOMAIN event_futures : futures[event_futures[i].future].st = "pending") =>
              LET hits == {i \in DOMAIN event_futures :
                              \A k \in DOMAIN event_futures[i].criteria :
                                  k \in DOMAIN m /\ m[k] = event_futures[i].criteria[k]}
                  first == CHOOSE i \in hits : \A j \in hits : i <= j
              IN  IF hits # {}
                  THEN /\ futures'[event_futures[first].future] =
                              [kind |-> "event", st |-> "done", res |-> m]
                       /\ event_futures' = RemoveAt(event_futures, first)
                       /\ loop' = "running"
                  ELSE /\ event_futures' = event_futures
                       /\ futures' = futures
                       /\ loop' = "running"]_vars

\* a waiter past the age ceiling is registered before one within it, and the message that
\* has just been read met the criteria of the second: that waiter is still registered and
\* pending, the first has been popped, and the loop has ended
C29_FreshMatchLost ==
    \E t, u \in DOMAIN tasks :
        /\ t # u
        /\ tasks[t].ef # 0 /\ ~Registered(t) /\ futures[tasks[t].ef].st = "pending"
        /\ Registered(u) /\ futures[tasks[u].ef].st = "pending"
        /\ \E i \in DOMAIN event_futures :
              /\ event_futures[i].future = tasks[u].ef
              /\ now - event_futures[i].timestamp <= AgeCeiling
        /\ loop = "closed"
        /\ tasks[u].pc = "wait"

-----------------------------------------------------------------------------
(* Claims on the registration of requests (WaitSpec).                       *)

\* the execution is inside _send_receive with its slot not yet resolved
Suspended(t) == tasks[t].pc \in {"send", "await"} /\ Called(t) /\ Slot(t).st = "pending"

\* C30: whatever the interleaving of the handler executions, every execution inside
\* _send_receive with its slot unresolved finds its own future in id_futures under its own
\* request id; two such executions have different ids and different futures; and a
\* registration adds a new key to id_futures and leaves every entry that stays as it was.
C30_OwnSlotOwnId ==
    /\ [](\A t \in DOMAIN tasks :
            Suspended(t) =>
                /\ tasks[t].id \in DOMAIN id_futures
                /\ id_futures[tasks[t].id] = tasks[t].f
                /\ futures[tasks[t].f].kind = "id"
                /\ \A u \in DOMAIN tasks :
                      (u # t /\ Suspended(u)) =>
                          tasks[u].id # tasks[t].id /\ tasks[u].f # tasks[t].f)
    /\ [][\A t \in DOMAIN tasks :
            (tasks'[t].f # tasks[t].f) =>
                /\ tasks'[t].id \notin DOMAIN id_futures
                /\ tasks'[t].id \notin SentIds
                /\ DOMAIN id_futures' = DOMAIN id_futures \cup {tasks'[t].id}
                /\ \A id \in DOMAIN id_futures : id_futures'[id] = id_futures[id]]_vars

\* two executions are suspended in _send_receive at once, the one that registered second
\* transmitted first: each has its own entry
C30_Witness ==
    \E t, u \in DOMAIN tasks :
        /\ t # u /\ Suspended(t) /\ Suspended(u)
        /\ tasks[t].pc = "await" /\ tasks[u].pc = "await"
        /\ tasks[t].f < tasks[u].f
        /\ \E i \in At("send", tasks[u].id), j \in At("send", tasks[t].id) : i < j
        /\ DOMAIN id_futures = {tasks[t].id, tasks[u].id}
        /\ id_futures[tasks[t].id] = tasks[t].f /\ id_futures[tasks[u].id] = tasks[u].f

-----------------------------------------------------------------------------
(* Claims on the termination of calls (AnsweredWaitSpec).                   *)

\* C31 as claimed: with the transport open and every received request answered by the
\* controller, every call suspended in _send_receive eventually leaves it, by returning or
\* by raising.
C31_EveryCallEnds ==
    \A t \in 1..MaxTasks : InAwait(t) ~> ~InAwait(t)

\* the same for the calls suspended while the read loop runs: this much holds, a call stays
\* suspended forever only when the read loop has ended
C31_EndsWhileLoopRuns ==
    \A t \in 1..MaxTasks : InAwait(t) ~> (~InAwait(t) \/ loop = "closed")

-----------------------------------------------------------------------------
(* Claims on messages that lack a field (MalformedSpec).                    *)

\* C32 as claimed: a message that lacks the discriminator, a wildcard dimension or a field
\* passed to the resolved handler does not end the session: after it the read loop runs.
C32_MissingFieldTolerated ==
    [][\A m \in Malformed : Recv(m) => loop' = "running"]_vars

\* what the code does with such a message: the KeyError ends the read loop, no handler is
\* spawned, no slot is resolved and no further message is read
C32_MissingFieldEndsLoop ==
    /\ [][\A m \in Malformed :
            Recv(m) => loop' = "closed" /\ UNCHANGED <<tasks, futures, id_futures, log>>]_vars
    /\ [](last_e \in Malformed => loop = "closed" /\ \A m \in Inbound \cup Malformed : ~ENABLED Recv(m))

\* a button event without source_uri has been read while a request was pending: the loop
\* has ended with the request's slot unresolved
C32_SessionEnded ==
    \E t \in DOMAIN tasks :
        /\ last_e = Lacking(ButtonEvent("action", "single"), "source_uri")
        /\ loop = "closed"
        /\ tasks[t].pc = "await" /\ Slot(t).st = "pending"

-----------------------------------------------------------------------------
(* Claims on repeated registrations (RegistrySpec).                         *)

\* the registry th after key got func: that key holds func, every other key is as before
Overwritten(th, key, func) ==
    /\ DOMAIN type_handlers' = DOMAIN th \cup {key}
    /\ type_handlers'[key] = func
    /\ \A k \in DOMAIN th \ {key} : type_handlers'[k] = th[k]

\* C33: a registration, through on_button, on_notification, on_timer or on_start, is never
\* refused, whether or not its key is registered already; after it the key holds the handler
\* just given and every other key is unchanged, so a key holds one handler, the one
\* registered last; and get_handler, for an event whose own key is registered, returns the
\* handler that key holds now.
C33_LastRegistrationWins ==
    /\ [][/\ \A f \in Funcs, b \in Buttons \cup {"*"}, t \in Taps \cup {"*"} :
                on_button(f, b, t) => Overwritten(type_handlers, <<BUTTON, b, t>>, f)
          /\ \A f \in Funcs, n \in Names \cup {"*"}, e \in Events \cup {"*"} :
                on_notification(f, n, e) => Overwritten(type_handlers, <<NOTIFICATION, n, e>>, f)
          /\ \A f \in Funcs : on_timer(f) => Overwritten(type_handlers, <<TIMER>>, f)
          /\ \A f \in Funcs : on_start(f) => Overwritten(type_handlers, <<START>>, f)]_vars
    /\ [](nregs < MaxRegs =>
            \A k \in DOMAIN type_handlers, f \in Funcs :
                ENABLED (/\ \/ \E b \in Buttons \cup {"*"}, t \in Taps \cup {"*"} : on_button(f, b, t)
                            \/ \E n \in Names \cup {"*"}, e \in Events \cup {"*"} : on_notification(f, n, e)
                            \/ on_timer(f)
                            \/ on_start(f)
                         /\ type_handlers'[k] = f
                         /\ DOMAIN type_handlers' = DOMAIN type_handlers))
    /\ [][\A e \in RegistryEvents :
            GetHandler(e) =>
                LET key == IF TwoDimensional(e) THEN Candidates(e)[1] ELSE <<e["_type"]>>
                IN  key \in DOMAIN type_handlers => resolved' = type_handlers[key]]_vars

\* the registrations made outnumber the keys registered, so a key was registered again, and
\* the event of that key has resolved to the handler the key holds
C33_Witness ==
    /\ nregs = MaxRegs
    /\ DOMAIN type_handlers = {<<START>>}
    /\ event = StartEvent
    /\ resolved = type_handlers[<<START>>]
    /\ resolved = "g"

-----------------------------------------------------------------------------
(* Claims on what one message resolves (MultiSpec).                         *)

\* the criteria are met by the message: every key is in it with the same value
Meets(criteria, m) == \A k \in DOMAIN criteria : k \in DOMAIN m /\ m[k] = criteria[k]

\* C34: one turn of the read loop changes at most one future, and only by resolving it with
\* the message. A message with the id of a Correlation Table entry resolves that entry's
\* future and leaves the Event Matcher and its futures alone. Any other message leaves the
\* Correlation Table alone, and a waiter it resolves is the earliest-registered one, among
\* those within the age ceiling, whose criteria it meets; every other such waiter stays
\* registered with its future untouched. With no waiter past the age ceiling and that
\* earliest waiter pending, it is resolved and removed.
C34_AtMostOneSlot ==
    [][HandleOne =>
        LET changed == {f \in DOMAIN futures : futures'[f] # futures[f]}
            corr == "_id" \in DOMAIN event /\ event["_id"] \in DOMAIN id_futures
            hits == {i \in DOMAIN event_futures :
                        /\ now - event_futures[i].timestamp <= AgeCeiling
                        /\ Meets(event_futures[i].criteria, event)}
            Still(i) == \E j \in DOMAIN event_futures' : event_futures'[j] = event_futures[i]
        IN  /\ Cardinality(changed) <= 1
            /\ \A f \in changed :
                  futures[f].st = "pending" /\ futures'[f] = [futures[f] EXCEPT !.st = "done", !.res = event]
            /\ corr =>
                  /\ changed = {id_futures[event["_id"]]}
                  /\ event_futures' = event_futures
                  /\ event["_id"] \notin DOMAIN id_futures'
            /\ ~corr =>
                  /\ id_futures' = id_futures
                  /\ \A i \in DOMAIN event_futures :
                        event_futures[i].future \in changed =>
                            i \in hits /\ ~Still(i) /\ \A j \in hits : i <= j
                  /\ \A i \in hits : (\E j \in hits : j < i) => Still(i)
                  /\ \A i \in hits :
                        (/\ NoneStale
                         /\ \A j \in hits : i <= j
                         /\ futures[event_futures[i].future].st = "pending") =>
                            event_futures[i].future \in changed /\ ~Still(i)]_vars

\* the message read met the criteria of both waiters: the first has been resolved with it
\* and removed, the second is still registered and pending, and the request's slot is
\* untouched
C34_Witness ==
    /\ last_e # NoMsg
    /\ futures[1] = [kind |-> "event", st |-> "done", res |-> last_e]
    /\ Len(event_futures) = 1
    /\ event_futures[1].future = 2
    /\ Meets(event_futures[1].criteria, last_e)
    /\ futures[2].st = "pending"
    /\ futures[3].st = "pending" /\ DOMAIN id_futures = {"1"}

-----------------------------------------------------------------------------
(* Claims on the order of registration and transmission (Spec).             *)

\* C35: when a request is transmitted its future is already in id_futures under its id,
\* pending; the entry of a transmitted request stays there until a message with its id has
\* been correlated; so the first message that arrives with the id of a transmitted request,
\* whenever it arrives, finds the entry, resolves the slot with itself, and is not handled
\* as an event (nothing is spawned).
C35_EntryBeforeTransmit ==
    /\ [][\A t \in DOMAIN tasks :
            (Transmit(t) /\ loop = "running") =>
                /\ tasks[t].id \in DOMAIN id_futures
                /\ id_futures[tasks[t].id] = tasks[t].f
                /\ Slot(t).st = "pending"]_vars
    /\ [](\A id \in SentIds : id \in DOMAIN id_futures \/ At("recv", id) # {})
    /\ [][\A id \in SentIds : \A m \in {Response(id), ErrorResponse(id)} :
            (Recv(m) /\ At("recv", id) = {}) =>
                /\ futures'[id_futures[id]] = [kind |-> "id", st |-> "done", res |-> m]
                /\ tasks' = tasks
                /\ loop' = "running"]_vars

\* the response was read in the very next step after the transmission, before the handler
\* could run again: it found the entry and resolved the slot
C35_Witness ==
    \E t \in DOMAIN tasks :
        /\ tasks[t].pc = "await"
        /\ Len(log) >= 2
        /\ log[Len(log) - 1] = LogEntry("send", tasks[t].id, "wf_api_say_request")
        /\ log[Len(log)] = LogEntry("recv", tasks[t].id, "wf_api_say_response")
        /\ Slot(t) = [kind |-> "id", st |-> "done", res |-> Response(tasks[t].id)]
        /\ last_e = Response(tasks[t].id)

-----------------------------------------------------------------------------
(* Claims on the owners of the Event Matcher's entries (WaitSpec).          *)

\* the execution is inside the say_and_wait that registered the waiter with future f
InProgress(t, f) == tasks[t].ef = f /\ tasks[t].pc \in {"send", "await", "wait"}

\* the call of say_and_wait has ended by raising WorkflowException on its direct response
RaisedOnResponse(t) ==
    /\ tasks[t].pc = "failed"
    /\ tasks[t].sr.kind = "raised" /\ tasks[t].sr.val["exception"] = "WorkflowException"

\* C36 as claimed: every waiter registered in the Event Matcher belongs to a call that is
\* still in progress: once a say_and_wait has ended by raising, because its direct response
\* was an error response or because its wait timed out, the waiter it registered is not in
\* the Event Matcher.
C36_RaisedCallLeavesNoWaiter ==
    \A t \in DOMAIN tasks :
        (tasks[t].ef # 0 /\ (RaisedOnResponse(t) \/ TimedOut(t))) =>
            /\ ~Registered(t)
            /\ \A i \in DOMAIN event_futures :
                  \E u \in DOMAIN tasks : InProgress(u, event_futures[i].future)

\* the direct response of a say_and_wait was an error response: the call has raised
\* WorkflowException and its waiter is still registered, its future pending
C36_WaiterLeftByError ==
    \E t \in DOMAIN tasks :
        /\ RaisedOnResponse(t)
        /\ Registered(t)
        /\ futures[tasks[t].ef].st = "pending"

\* what holds: a waiter leaves the Event Matcher only in a turn of the read loop, never
\* when its call returns or raises
C36_OnlyLoopRemoves ==
    [][(\E i \in DOMAIN event_futures :
            \A j \in DOMAIN event_futures' : event_futures'[j].future # event_futures[i].future)
          => \E m \in Inbound : Recv(m)]_vars

-----------------------------------------------------------------------------
(* Claims on the order of processing (OrderSpec).                           *)

\* C37: the loop reads the message that arrived first among those not read yet and leaves
\* the later ones in flight in their order; in that one turn everything the message causes
\* is done: a message with the id of a Correlation Table entry has resolved its slot, an
\* event with a registered handler has spawned it with the event's fields, and every future
\* that changed was resolved with this message. No step other than a turn of the loop
\* resolves a slot or spawns a handler, and arrivals join the end of the line. So the
\* resolutions and spawns, as the log records them, follow the order of arrival.
C37_ArrivalOrder ==
    /\ [][Read =>
            LET m == Head(last_e)
            IN  /\ last_e' = Tail(last_e)
                /\ \A f \in DOMAIN futures :
                      futures'[f] # futures[f] =>
                          futures'[f] = [futures[f] EXCEPT !.st = "done", !.res = m]
                /\ KnownCorrelationId(m) =>
                      /\ futures'[id_futures[m["_id"]]].st = "done"
                      /\ log' = Append(log, LogEntry("recv", m["_id"], m["_type"]))
                      /\ tasks' = tasks
                /\ (~KnownCorrelationId(m) /\ get_handler(type_handlers, m) # None) =>
                      /\ tasks' = Append(tasks, NewTask(get_handler(type_handlers, m), HandlerArgs(m)))
                      /\ log' = Append(log, LogEntry("spawn", ToString(Len(tasks) + 1),
                                                     get_handler(type_handlers, m)))
                /\ (~KnownCorrelationId(m) /\ get_handler(type_handlers, m) = None) =>
                      log' = log /\ tasks' = tasks]_vars
    /\ [][~Read =>
            /\ Len(tasks') = Len(tasks)
            /\ \A f \in DOMAIN futures : futures'[f] = futures[f]
            /\ \A i \in DOMAIN log' : log'[i].ev \in {"recv", "spawn"} => i \in DOMAIN log
            /\ SubSeq(last_e', 1, Len(last_e)) = last_e]_vars

\* two responses are in flight, the one to the later request ahead of the one to the
\* earlier: the loop has read the first of them, whose slot is resolved and logged, while
\* the other is still unread with its slot pending
C37_Witness ==
    \E t, u \in DOMAIN tasks :
        /\ Called(t) /\ Called(u) /\ tasks[t].f < tasks[u].f
        /\ last_e = <<Response(tasks[t].id)>>
        /\ Slot(t).st = "pending"
        /\ Slot(u) = [kind |-> "id", st |-> "done", res |-> Response(tasks[u].id)]
        /\ log[Len(log)] = LogEntry("recv", tasks[u].id, "wf_api_say_response")
        /\ tasks[u].pc = "await"

=============================================================================
